---- MODULE Spec2Model ----
(***************************************************************************)
(* Model of the HojaVerde attendance backend: the bulk attendance save     *)
(* (AttendanceController.bulkCreate) running as concurrent requests over   *)
(* the PostgreSQL tables declared in prisma/schema.prisma.                 *)
(*                                                                         *)
(* Hour quantities are exact rationals counted in ticks of 1/3000 hour, a  *)
(* unit in which every minute (50 ticks), every hundredth of an hour (30   *)
(* ticks) and every thousandth of an hour (3 ticks) is an integer.         *)
(***************************************************************************)
EXTENDS Integers, Sequences, FiniteSets, TLC

\* ---------------------------------------------------------------- bounds

\* Longest batch a modelled request submits.
MaxRecords == 2

\* Number of area and employee requests in flight or finished.
MaxAdminRequests == 2

\* Number of read requests (template, verify, daily summary) in flight or finished.
MaxReads == 2

\* ------------------------------------------------------- program constants

TicksPerHour == 3000
MinutesPerHour == 60
MinutesPerDay == 1440
MaxBatchSize == 1000
MaxLunchDuration == 180
MaxPermissionHours == 12
MaxMealCount == 5
MaxTransport == 50
DefaultLunchDuration == 30
DefaultBaseHours == 8
SupplementaryCap == 2
NotFoundShown == 5
ErrorsShown == 10
MaxWorkingHours == 12
MaxTemplateAreas == 10

TicksPerMinute == TicksPerHour \div MinutesPerHour
TicksPerCenti == TicksPerHour \div 100

Procs == {1, 2}
Dates == {"2025-01-06", "2025-01-07"}
AreaIds == {"a1", "a2"}
EmployeeIds == {"e1", "e2", "e3"}
NoArea == "null"
Admins == 1..MaxAdminRequests
Readers == 1..MaxReads

VARIABLES
    area,                \* table areas: id -> row
    employee,            \* table employees: id -> row
    attendance_records,  \* table attendance_records (committed rows)
    food_allowances,     \* table food_allowances (committed rows)
    extra_hours,         \* table extra_hours (committed rows)
    tx,                  \* per request: the interactive transaction and its uncommitted rows
    pc,                  \* per request: position in bulkCreate
    body,                \* per request: req.body as submitted
    records,             \* per request: the parsed records
    employees,           \* per request: result of the active-employee lookup
    i,                   \* per request: loop index (1-based here, 0-based in the code)
    processedRecords,    \* per request: the result's processedRecords
    errors,              \* per request: the result's errors
    response,            \* per request: the response sent
    cancelled,           \* per request: the client went away while the transaction was open
    calc,                \* one application of a calculation helper: its arguments and result
    user,                \* table users: employeeId -> row
    op,                  \* per area or employee request: its handler, position and response
    read,                \* per read request: its handler, position, what it saw and its response
    auth                 \* per attendance request: its token, position in the middlewares, req.user and their response

storage == <<area, employee, attendance_records, food_allowances, extra_hours>>
locals == <<pc, body, records, employees, i, processedRecords, errors, response>>
\* What no step of bulkCreate touches.
others == <<calc, user, op, read, auth>>
vars == <<area, employee, attendance_records, food_allowances, extra_hours, tx,
          pc, body, records, employees, i, processedRecords, errors, response, cancelled,
          calc, user, op, read, auth>>

\* ------------------------------------------------------------ arithmetic

Range(f) == {f[k] : k \in DOMAIN f}

Max(a, b) == IF a >= b THEN a ELSE b
Min(a, b) == IF a <= b THEN a ELSE b

\* Number.prototype.toFixed(2) of a non-negative number of ticks, in hundredths.
toFixed2(ticks) == (ticks + (TicksPerCenti \div 2)) \div TicksPerCenti

\* toFixed(2) of the transport amount, submitted in thousandths, in hundredths.
toFixedTransport(mills) == (mills + 5) \div 10

\* new Date(`1970-01-01T${t}:00`).getTime(), in minutes.
TimeMinutes(t) == t.h * MinutesPerHour + t.m

\* Mutation: an exit before the entry is not taken as the next day.
calculateWorkedHoursSameDay(entryTime, exitTime, lunchDuration, permissionHours) ==
    LET diff == TimeMinutes(exitTime) - TimeMinutes(entryTime)
    IN  Max(0, diff * TicksPerMinute - lunchDuration * TicksPerMinute - permissionHours)

calculateWorkedHours(entryTime, exitTime, lunchDuration, permissionHours) ==
    LET diff0 == TimeMinutes(exitTime) - TimeMinutes(entryTime)
        diff == IF diff0 < 0 THEN diff0 + MinutesPerDay ELSE diff0
        totalHours == diff * TicksPerMinute
        lunchHours == lunchDuration * TicksPerMinute
    IN  Max(0, totalHours - lunchHours - permissionHours)

\* Mutation: the supplementary bucket has no cap.
calculateExtraHoursUncapped(workedHours, defaultWorkingHours) ==
    LET baseHours == (IF defaultWorkingHours = 0 THEN DefaultBaseHours
                      ELSE defaultWorkingHours) * TicksPerHour
    IN  [nightHours |-> 0, supplementaryHours |-> Max(0, workedHours - baseHours),
         extraordinaryHours |-> 0]

calculateExtraHours(workedHours, defaultWorkingHours) ==
    LET baseHours == (IF defaultWorkingHours = 0 THEN DefaultBaseHours
                      ELSE defaultWorkingHours) * TicksPerHour
        extraHours == workedHours - baseHours
    IN  IF workedHours <= baseHours
        THEN [nightHours |-> 0, supplementaryHours |-> 0, extraordinaryHours |-> 0]
        ELSE IF extraHours <= SupplementaryCap * TicksPerHour
        THEN [nightHours |-> 0, supplementaryHours |-> extraHours,
              extraordinaryHours |-> 0]
        ELSE [nightHours |-> 0, supplementaryHours |-> SupplementaryCap * TicksPerHour,
              extraordinaryHours |-> extraHours - SupplementaryCap * TicksPerHour]

\* ------------------------------------------------------- request schemas

MealFields == {"breakfast", "reinforcedBreakfast", "snack1", "afternoonSnack",
               "dryMeal", "lunch"}

Get(r, f, default) == IF f \in DOMAIN r THEN r[f] ELSE default

TimeOk(t) == t.h \in 0..23 /\ t.m \in 0..59

\* foodAllowanceSchema: meal counts are integers in [0,5], transport (in
\* thousandths) is in [0,50]; every field defaults to 0.
foodAllowanceSchemaOk(f) ==
    /\ \A k \in DOMAIN f \cap MealFields : f[k] >= 0 /\ f[k] <= MaxMealCount
    /\ "transport" \in DOMAIN f =>
          f.transport >= 0 /\ f.transport <= MaxTransport * 1000

foodAllowanceSchemaParse(f) ==
    [k \in MealFields \cup {"transport"} |-> Get(f, k, 0)]

\* Mutation: the schema checks the times only, no range.
attendanceRecordSchemaNoRanges(r) ==
    /\ "entryTime" \in DOMAIN r => TimeOk(r.entryTime)
    /\ "exitTime" \in DOMAIN r => TimeOk(r.exitTime)

\* attendanceRecordSchema: the checks of one submitted record.
attendanceRecordSchemaOk(r) ==
    /\ "entryTime" \in DOMAIN r => TimeOk(r.entryTime)
    /\ "exitTime" \in DOMAIN r => TimeOk(r.exitTime)
    /\ "lunchDuration" \in DOMAIN r =>
          r.lunchDuration >= 0 /\ r.lunchDuration <= MaxLunchDuration
    /\ "permissionHours" \in DOMAIN r =>
          r.permissionHours >= 0 /\ r.permissionHours <= MaxPermissionHours * TicksPerHour
    /\ "foodAllowance" \in DOMAIN r => foodAllowanceSchemaOk(r.foodAllowance)

\* attendanceRecordSchema: the parsed record, defaults filled in; entryTime
\* and exitTime stay absent when they were not submitted.
attendanceRecordSchemaParse(r) ==
    LET timeKeys == DOMAIN r \cap {"entryTime", "exitTime"}
        fixed == [employeeId |-> r.employeeId,
                  lunchDuration |-> Get(r, "lunchDuration", DefaultLunchDuration),
                  isVacation |-> Get(r, "isVacation", FALSE),
                  permissionHours |-> Get(r, "permissionHours", 0),
                  foodAllowance |->
                      foodAllowanceSchemaParse(Get(r, "foodAllowance", <<>>))]
    IN  [k \in timeKeys |-> r[k]] @@ fixed

\* Mutation: the records array has no .max(1000).
bulkAttendanceSchemaNoMax(b) ==
    /\ Len(b.records) >= 1
    /\ \A k \in 1..Len(b.records) : attendanceRecordSchemaOk(b.records[k])

\* bulkAttendanceSchema: between 1 and 1000 records, each one valid.
bulkAttendanceSchemaOk(b) ==
    /\ Len(b.records) >= 1
    /\ Len(b.records) <= MaxBatchSize
    /\ \A k \in 1..Len(b.records) : attendanceRecordSchemaOk(b.records[k])

\* ------------------------------------------------------------- the tables

NoTx == [state |-> "none", cause |-> "none", attendance_records |-> {},
         food_allowances |-> {}, extra_hours |-> {}]

NoResponse == [status |-> 0]

\* An area or employee request that has not arrived.
NoOp == [kind |-> "", pc |-> "idle"]

\* A read request that has not arrived.
NoRead == [kind |-> "", pc |-> "idle"]

\* No calculation helper is being applied.
NoCalc == [fn |-> ""]

\* An attendance request that has not arrived; a request without req.user.
NoAuth == [pc |-> "idle", route |-> "", status |-> 0]
NoUser == [id |-> "", role |-> ""]

\* The seeded tables and the requests before they arrive.
InitBulk ==
    /\ area = [a \in AreaIds |->
                 [defaultWorkingHours |-> IF a = "a1" THEN 8 ELSE 10,
                  defaultEntryTime |-> IF a = "a1" THEN 6 * MinutesPerHour + 30
                                       ELSE 7 * MinutesPerHour,
                  defaultExitTime |-> IF a = "a1" THEN 16 * MinutesPerHour
                                      ELSE 18 * MinutesPerHour]]
    /\ employee = [e \in EmployeeIds |->
                     [isActive |-> e # "e3",
                      areaId |-> CASE e = "e1" -> "a1" [] e = "e2" -> "a2"
                                   [] OTHER -> NoArea]]
    /\ attendance_records = {}
    /\ food_allowances = {}
    /\ extra_hours = {}
    /\ tx = [p \in Procs |-> NoTx]
    /\ pc = [p \in Procs |-> "idle"]
    /\ body = [p \in Procs |-> [date |-> "", records |-> <<>>]]
    /\ records = [p \in Procs |-> <<>>]
    /\ employees = [p \in Procs |-> <<>>]
    /\ i = [p \in Procs |-> 0]
    /\ processedRecords = [p \in Procs |-> <<>>]
    /\ errors = [p \in Procs |-> <<>>]
    /\ response = [p \in Procs |-> NoResponse]
    /\ cancelled = [p \in Procs |-> FALSE]
    /\ user = [e \in EmployeeIds |->
                 [isActive |-> TRUE,
                  role |-> CASE e = "e1" -> "ADMIN" [] e = "e2" -> "EDITOR"
                             [] OTHER -> "VIEWER"]]
    /\ op = [a \in Admins |-> NoOp]
    /\ read = [r \in Readers |-> NoRead]
    /\ auth = [c \in Readers |-> NoAuth]

Init ==
    /\ InitBulk
    /\ calc = NoCalc

\* --------------------------------------------------------------- bulkCreate

\* records.map(record => record.employeeId)
employeeIds(p) == [k \in 1..Len(records[p]) |-> records[p][k].employeeId]

\* prisma.employee.findMany({ where: { id: { in: employeeIds }, isActive: true } })
FindActiveEmployees(ids) ==
    {e \in DOMAIN employee : employee[e].isActive /\ \E k \in 1..Len(ids) : ids[k] = e}

\* Mutation: the count check never answers 404.
LookupMismatchNever(found, ids) == FALSE

\* employees.length !== employeeIds.length
LookupMismatch(found, ids) == Cardinality(found) # Len(ids)

\* employeeIds.filter(id => !foundIds.includes(id))
Filter(ids, found) == SelectSeq(ids, LAMBDA id : id \notin found)

\* notFoundIds.slice(0, 5) and the count of the rest, as the 404 message gives them.
NotFoundMessage(notFoundIds) ==
    [shown |-> SubSeq(notFoundIds, 1, Min(Len(notFoundIds), NotFoundShown)),
     more |-> Max(0, Len(notFoundIds) - NotFoundShown)]

\* The request arrives and bulkAttendanceSchema.parse(req.body) runs: a body
\* that fails the schema is answered 400 before anything is read or written.
BulkCreateRequest(p, b) ==
    /\ pc[p] = "idle"
    /\ body' = [body EXCEPT ![p] = b]
    /\ IF bulkAttendanceSchemaOk(b)
       THEN /\ records' = [records EXCEPT ![p] =
                   [k \in 1..Len(b.records) |-> attendanceRecordSchemaParse(b.records[k])]]
            /\ pc' = [pc EXCEPT ![p] = "findEmployees"]
            /\ UNCHANGED response
       ELSE /\ response' = [response EXCEPT ![p] = [status |-> 400]]
            /\ pc' = [pc EXCEPT ![p] = "done"]
            /\ UNCHANGED records
    /\ UNCHANGED <<others, storage, tx, employees, i, processedRecords, errors, cancelled>>

\* Mutation: the records of the employees that were found are written before
\* the count is checked.
BulkCreateFindEmployeesWriteFirst(p) ==
    /\ pc[p] = "findEmployees"
    /\ LET ids == employeeIds(p)
           found == FindActiveEmployees(ids)
       IN  /\ employees' = [employees EXCEPT ![p] =
                  [e \in found |-> [areaId |-> employee[e].areaId,
                                    defaultWorkingHours |->
                                        IF employee[e].areaId \in DOMAIN area
                                        THEN area[employee[e].areaId].defaultWorkingHours
                                        ELSE 0]]]
           /\ attendance_records' = attendance_records \cup
                  {[id |-> <<p, k>>, employeeId |-> records[p][k].employeeId,
                    date |-> body[p].date, entryTime |-> <<>>, exitTime |-> <<>>,
                    lunchDuration |-> records[p][k].lunchDuration, workedHours |-> 0,
                    isVacation |-> records[p][k].isVacation, permissionHours |-> 0]
                      : k \in {j \in 1..Len(records[p]) :
                                  records[p][j].employeeId \in found}}
           /\ IF LookupMismatch(found, ids)
              THEN /\ response' = [response EXCEPT ![p] =
                          [status |-> 404,
                           notFound |-> NotFoundMessage(Filter(ids, found))]]
                   /\ pc' = [pc EXCEPT ![p] = "done"]
                   /\ UNCHANGED <<tx, i>>
              ELSE /\ tx' = [tx EXCEPT ![p] = [NoTx EXCEPT !.state = "open"]]
                   /\ i' = [i EXCEPT ![p] = 1]
                   /\ pc' = [pc EXCEPT ![p] = "findUnique"]
                   /\ UNCHANGED response
    /\ UNCHANGED <<others, area, employee, food_allowances, extra_hours, body, records,
                   processedRecords, errors, cancelled>>

\* The active-employee lookup; a count mismatch is answered 404, otherwise
\* prisma.$transaction opens the transaction and the loop starts.
BulkCreateFindEmployees(p) ==
    /\ pc[p] = "findEmployees"
    /\ LET ids == employeeIds(p)
           found == FindActiveEmployees(ids)
       IN  /\ employees' = [employees EXCEPT ![p] =
                  [e \in found |-> [areaId |-> employee[e].areaId,
                                    defaultWorkingHours |->
                                        IF employee[e].areaId \in DOMAIN area
                                        THEN area[employee[e].areaId].defaultWorkingHours
                                        ELSE 0]]]
           /\ IF LookupMismatch(found, ids)
              THEN /\ response' = [response EXCEPT ![p] =
                          [status |-> 404,
                           notFound |-> NotFoundMessage(Filter(ids, found))]]
                   /\ pc' = [pc EXCEPT ![p] = "done"]
                   /\ UNCHANGED <<tx, i>>
              ELSE /\ tx' = [tx EXCEPT ![p] = [NoTx EXCEPT !.state = "open"]]
                   /\ i' = [i EXCEPT ![p] = 1]
                   /\ pc' = [pc EXCEPT ![p] = "findUnique"]
                   /\ UNCHANGED response
    /\ UNCHANGED <<others, storage, body, records, processedRecords, errors, cancelled>>

\* The key of the unique constraint @@unique([employeeId, date]).
SameKey(r, employeeId, date) == r.employeeId = employeeId /\ r.date = date

\* Mutation: the existence check finds nothing.
ExistingRecordNever(p, employeeId, date) == FALSE

\* tx.attendanceRecord.findUnique({ where: { employeeId_date } }): the committed
\* rows and the transaction's own rows are visible to it.
ExistingRecord(p, employeeId, date) ==
    \E r \in attendance_records \cup tx[p].attendance_records :
        SameKey(r, employeeId, date)

\* Mutation: the table has no unique constraint on (employeeId, date).
UniqueViolationNever(p, row) == FALSE

\* The unique constraint at insert time.
UniqueViolation(p, row) ==
    \E r \in attendance_records \cup tx[p].attendance_records :
        SameKey(r, row.employeeId, row.date)

\* The open transactions holding an uncommitted row with the key of row: the
\* insert waits until each of them has committed or rolled back.
WaitsFor(p, row) ==
    {q \in Procs \ {p} :
        /\ tx[q].state = "open"
        /\ \E r \in tx[q].attendance_records : SameKey(r, row.employeeId, row.date)}

\* A statement error inside a PostgreSQL transaction block: the transaction is
\* aborted, its rows are gone, every later statement is refused.
AbortedTx(t, cause) ==
    [NoTx EXCEPT !.state = "aborted", !.cause = cause]

\* The transaction is closed under the request (expired, connection lost).
ClosedTx(t, cause) ==
    [NoTx EXCEPT !.state = "closed", !.cause = cause]

\* An error message pushed by the loop itself.
Message(text) == [call |-> "", message |-> text]

\* recordError.message of an error thrown by a Prisma call: it names the call.
CallError(call, text) == [call |-> call, message |-> text]

\* The error a statement throws on a transaction that is not open.
TxError(t, call) ==
    CallError(call, IF t.state = "aborted" THEN "current transaction is aborted"
                    ELSE "Transaction already closed")

\* JavaScript's a || b on numbers.
OrElse(a, b) == IF a = 0 THEN b ELSE a

\* Mutation: the vacation flag is not looked at.
ShouldCalculateIgnoringVacation(rec) ==
    "entryTime" \in DOMAIN rec /\ "exitTime" \in DOMAIN rec

\* !record.isVacation && record.entryTime && record.exitTime
ShouldCalculate(rec) ==
    /\ ~rec.isVacation
    /\ "entryTime" \in DOMAIN rec
    /\ "exitTime" \in DOMAIN rec

\* Mutation: a time that was not submitted is taken from the usual schedule.
ComputedWithUsualSchedule(rec, emp) ==
    IF ~rec.isVacation
    THEN LET w == calculateWorkedHours(
                      Get(rec, "entryTime", [h |-> 6, m |-> 30]),
                      Get(rec, "exitTime", [h |-> 16, m |-> 0]),
                      OrElse(rec.lunchDuration, DefaultLunchDuration),
                      OrElse(rec.permissionHours, 0))
         IN  [workedHours |-> w] @@
             calculateExtraHours(w, OrElse(emp.defaultWorkingHours, DefaultBaseHours))
    ELSE [workedHours |-> 0, nightHours |-> 0, supplementaryHours |-> 0,
          extraordinaryHours |-> 0]

\* workedHours and the three buckets of one record, as bulkCreate computes them.
Computed(rec, emp) ==
    IF ShouldCalculate(rec)
    THEN LET w == calculateWorkedHours(rec.entryTime, rec.exitTime,
                      OrElse(rec.lunchDuration, DefaultLunchDuration),
                      OrElse(rec.permissionHours, 0))
         IN  [workedHours |-> w] @@
             calculateExtraHours(w, OrElse(emp.defaultWorkingHours, DefaultBaseHours))
    ELSE [workedHours |-> 0, nightHours |-> 0, supplementaryHours |-> 0,
          extraordinaryHours |-> 0]

\* Mutation: only night hours create the row.
NeedsExtraHoursNightOnly(c) == c.nightHours > 0

\* nightHours > 0 || supplementaryHours > 0 || extraordinaryHours > 0
NeedsExtraHours(c) ==
    c.nightHours > 0 \/ c.supplementaryHours > 0 \/ c.extraordinaryHours > 0

\* createTimeDate of an optional time: null, or the time of day in minutes.
OptionalTime(rec, f) == IF f \in DOMAIN rec THEN <<TimeMinutes(rec[f])>> ELSE <<>>

\* data of tx.attendanceRecord.create; the generated uuid is <<request, index>>.
AttendanceRow(p, k, rec, c) ==
    [id |-> <<p, k>>,
     employeeId |-> rec.employeeId,
     date |-> body[p].date,
     entryTime |-> OptionalTime(rec, "entryTime"),
     exitTime |-> OptionalTime(rec, "exitTime"),
     lunchDuration |-> OrElse(rec.lunchDuration, DefaultLunchDuration),
     workedHours |-> toFixed2(c.workedHours),
     isVacation |-> rec.isVacation,
     permissionHours |-> toFixed2(rec.permissionHours)]

\* data of tx.foodAllowance.create
FoodRow(p, k, rec) ==
    [attendanceId |-> <<p, k>>,
     breakfast |-> rec.foodAllowance.breakfast,
     reinforcedBreakfast |-> rec.foodAllowance.reinforcedBreakfast,
     snack1 |-> rec.foodAllowance.snack1,
     afternoonSnack |-> rec.foodAllowance.afternoonSnack,
     dryMeal |-> rec.foodAllowance.dryMeal,
     lunch |-> rec.foodAllowance.lunch,
     transport |-> toFixedTransport(rec.foodAllowance.transport)]

\* data of tx.extraHours.create
ExtraRow(p, k, c) ==
    [attendanceId |-> <<p, k>>,
     nightHours |-> toFixed2(c.nightHours),
     supplementaryHours |-> toFixed2(c.supplementaryHours),
     extraordinaryHours |-> toFixed2(c.extraordinaryHours)]

\* Where the loop goes after record i: the next record, or the end of the callback.
Advance(p) ==
    /\ i' = [i EXCEPT ![p] = @ + 1]
    /\ pc' = [pc EXCEPT ![p] = IF i[p] + 1 > Len(records[p]) THEN "commit"
                               ELSE "findUnique"]

\* Mutation: the entry counts the records from one.
RejectRecordFromOne(p, message) ==
    /\ errors' = [errors EXCEPT ![p] =
           Append(@, [index |-> i[p],
                      employeeId |-> records[p][i[p]].employeeId,
                      error |-> message])]
    /\ Advance(p)
    /\ UNCHANGED processedRecords

\* errors.push({ index: i, employeeId, error }) followed by the next iteration:
\* the explicit pushes and the catch block of the loop body.
RejectRecord(p, message) ==
    /\ errors' = [errors EXCEPT ![p] =
           Append(@, [index |-> i[p] - 1,
                      employeeId |-> records[p][i[p]].employeeId,
                      error |-> message])]
    /\ Advance(p)
    /\ UNCHANGED processedRecords

\* processedRecords.push({ ..., status: 'created' }) followed by the next iteration.
AcceptRecord(p) ==
    LET rec == records[p][i[p]]
        emp == employees[p][rec.employeeId]
    IN  /\ processedRecords' = [processedRecords EXCEPT ![p] =
               Append(@, [employeeId |-> rec.employeeId,
                          area |-> emp.areaId,
                          workedHours |-> Computed(rec, emp).workedHours,
                          status |-> "created"])]
        /\ Advance(p)
        /\ UNCHANGED errors

\* Mutation: the create goes through the global client, outside the transaction.
InsertAttendanceOutsideTx(p, row) ==
    /\ attendance_records' = attendance_records \cup {row}
    /\ UNCHANGED tx

\* tx.attendanceRecord.create writes through the transaction.
InsertAttendance(p, row) ==
    /\ tx' = [tx EXCEPT ![p].attendance_records = @ \cup {row}]
    /\ UNCHANGED attendance_records

\* Loop head and the existence check of record i.
TxFindUnique(p) ==
    /\ pc[p] = "findUnique"
    /\ LET rec == records[p][i[p]]
       IN  IF rec.employeeId \notin DOMAIN employees[p]
           THEN RejectRecord(p, Message("Empleado no encontrado"))
           ELSE IF tx[p].state # "open"
           THEN RejectRecord(p, TxError(tx[p], "attendanceRecord.findUnique"))
           ELSE IF ExistingRecord(p, rec.employeeId, body[p].date)
           THEN RejectRecord(p, Message("Ya existe registro para esta fecha"))
           ELSE /\ pc' = [pc EXCEPT ![p] = "createAttendance"]
                /\ UNCHANGED <<i, errors, processedRecords>>
    /\ UNCHANGED <<others, storage, tx, body, records, employees, response, cancelled>>

\* tx.attendanceRecord.create of record i.
TxCreateAttendance(p) ==
    /\ pc[p] = "createAttendance"
    /\ LET rec == records[p][i[p]]
           row == AttendanceRow(p, i[p], rec, Computed(rec, employees[p][rec.employeeId]))
       IN  IF tx[p].state # "open"
           THEN /\ RejectRecord(p, TxError(tx[p], "attendanceRecord.create"))
                /\ UNCHANGED <<tx, attendance_records>>
           ELSE IF UniqueViolation(p, row)
           THEN /\ tx' = [tx EXCEPT ![p] = AbortedTx(@, "unique")]
                /\ RejectRecord(p, CallError("attendanceRecord.create", "Unique constraint failed"))
                /\ UNCHANGED attendance_records
           ELSE /\ WaitsFor(p, row) = {}
                /\ InsertAttendance(p, row)
                /\ pc' = [pc EXCEPT ![p] = "createFood"]
                /\ UNCHANGED <<i, errors, processedRecords>>
    /\ UNCHANGED <<others, area, employee, food_allowances, extra_hours, body, records,
                   employees, response, cancelled>>

\* tx.foodAllowance.create of record i.
TxCreateFood(p) ==
    /\ pc[p] = "createFood"
    /\ LET rec == records[p][i[p]]
           c == Computed(rec, employees[p][rec.employeeId])
       IN  IF tx[p].state # "open"
           THEN /\ RejectRecord(p, TxError(tx[p], "foodAllowance.create"))
                /\ UNCHANGED tx
           ELSE /\ tx' = [tx EXCEPT ![p].food_allowances = @ \cup {FoodRow(p, i[p], rec)}]
                /\ IF NeedsExtraHours(c)
                   THEN /\ pc' = [pc EXCEPT ![p] = "createExtra"]
                        /\ UNCHANGED <<i, errors, processedRecords>>
                   ELSE AcceptRecord(p)
    /\ UNCHANGED <<others, storage, body, records, employees, response, cancelled>>

\* tx.extraHours.create of record i.
TxCreateExtra(p) ==
    /\ pc[p] = "createExtra"
    /\ LET rec == records[p][i[p]]
           c == Computed(rec, employees[p][rec.employeeId])
       IN  IF tx[p].state # "open"
           THEN /\ RejectRecord(p, TxError(tx[p], "extraHours.create"))
                /\ UNCHANGED tx
           ELSE /\ tx' = [tx EXCEPT ![p].extra_hours = @ \cup {ExtraRow(p, i[p], c)}]
                /\ AcceptRecord(p)
    /\ UNCHANGED <<others, storage, body, records, employees, response, cancelled>>

InTransaction(p) ==
    pc[p] \in {"findUnique", "createAttendance", "createFood", "createExtra", "commit"}

\* A statement of the open transaction fails in the database (lock timeout,
\* statement timeout, ...): the transaction is aborted.
TxStatementFault(p) ==
    /\ InTransaction(p) /\ pc[p] # "commit"
    /\ tx[p].state = "open"
    /\ tx' = [tx EXCEPT ![p] = AbortedTx(@, "statement")]
    /\ UNCHANGED <<others, storage, locals, cancelled>>

\* The connection is lost or the interactive transaction expires.
TxConnectionFault(p) ==
    /\ InTransaction(p)
    /\ tx[p].state = "open"
    /\ tx' = [tx EXCEPT ![p] = ClosedTx(@, "connection")]
    /\ UNCHANGED <<others, storage, locals, cancelled>>

\* Is request p stopped in its insert behind a row of request q?
BlockedBy(p, q) ==
    /\ pc[p] = "createAttendance"
    /\ tx[p].state = "open"
    /\ LET rec == records[p][i[p]]
           row == AttendanceRow(p, i[p], rec, Computed(rec, employees[p][rec.employeeId]))
       IN  ~UniqueViolation(p, row) /\ q \in WaitsFor(p, row)

\* Two inserts wait for each other: PostgreSQL's deadlock detector fails the
\* statement of one of them, which aborts its transaction.
TxDeadlockDetected(p) ==
    /\ \E q \in Procs \ {p} : BlockedBy(p, q) /\ BlockedBy(q, p)
    /\ tx' = [tx EXCEPT ![p] = AbortedTx(@, "deadlock")]
    /\ RejectRecord(p, CallError("attendanceRecord.create", "deadlock detected"))
    /\ UNCHANGED <<others, storage, body, records, employees, response, cancelled>>

\* The rows a committing transaction adds to the tables.
CommitRows(t) ==
    /\ attendance_records' = attendance_records \cup t.attendance_records
    /\ food_allowances' = food_allowances \cup t.food_allowances
    /\ extra_hours' = extra_hours \cup t.extra_hours

\* res.status(201).json(...): the counts and the records created; errors is
\* the number of rejected records, replaced, when there is one, by the first
\* ten entries of the list, with their number in totalErrors.
Created(p) ==
    IF Len(errors[p]) > 0
    THEN [status |-> 201,
          processed |-> Len(processedRecords[p]),
          totalRequested |-> Len(records[p]),
          processedRecords |-> processedRecords[p],
          errors |-> SubSeq(errors[p], 1, Min(Len(errors[p]), ErrorsShown)),
          totalErrors |-> Len(errors[p])]
    ELSE [status |-> 201,
          processed |-> Len(processedRecords[p]),
          totalRequested |-> Len(records[p]),
          processedRecords |-> processedRecords[p],
          errors |-> 0]

\* The callback has returned { processedRecords, errors }: prisma.$transaction
\* commits. COMMIT of an aborted transaction block completes as a rollback
\* without an error; on a closed transaction it throws, and the request is
\* answered 500.
BulkCreateCommit(p) ==
    /\ pc[p] = "commit"
    /\ IF tx[p].state = "open"
       THEN /\ CommitRows(tx[p])
            /\ tx' = [tx EXCEPT ![p] = [NoTx EXCEPT !.state = "committed"]]
            /\ response' = [response EXCEPT ![p] = Created(p)]
       ELSE /\ UNCHANGED <<attendance_records, food_allowances, extra_hours>>
            /\ tx' = [tx EXCEPT ![p].state = "rolledback"]
            /\ response' = [response EXCEPT ![p] =
                   IF tx[p].state = "aborted" THEN Created(p) ELSE [status |-> 500]]
    /\ pc' = [pc EXCEPT ![p] = "done"]
    /\ UNCHANGED <<others, area, employee, body, records, employees, i, processedRecords,
                   errors, cancelled>>

\* The client drops the request while the transaction is open. bulkCreate
\* listens to no close event and passes no signal to the transaction.
RequestCancelled(p) ==
    /\ InTransaction(p)
    /\ ~cancelled[p]
    /\ cancelled' = [cancelled EXCEPT ![p] = TRUE]
    /\ UNCHANGED <<others, storage, tx, locals>>

\* ------------------------------------------------------ EmployeesController

\* What no area or employee handler touches.
attendance == <<attendance_records, food_allowances, extra_hours, tx, locals, cancelled,
                calc, read, auth>>

\* The handler of request a has sent its response.
Respond(a, status) == op' = [op EXCEPT ![a].pc = "done", ![a].status = status]

\* DELETE /api/employees/:id, up to its findUnique (include: user).
EmployeeDelete(a, id) ==
    /\ op[a].pc = "idle"
    /\ op' = [op EXCEPT ![a] =
           IF id \notin DOMAIN employee
           THEN [kind |-> "employee.delete", id |-> id, pc |-> "done", status |-> 404]
           ELSE [kind |-> "employee.delete", id |-> id, pc |-> "update", status |-> 0,
                 hasUser |-> id \in DOMAIN user]]
    /\ UNCHANGED <<storage, user, attendance>>

\* Mutation: the deactivation also removes the attendance rows of the employee.
EmployeeDeleteUpdateHard(a) ==
    /\ op[a].kind = "employee.delete" /\ op[a].pc = "update"
    /\ employee' = [employee EXCEPT ![op[a].id].isActive = FALSE]
    /\ attendance_records' = {r \in attendance_records : r.employeeId # op[a].id}
    /\ Respond(a, 200)
    /\ UNCHANGED <<area, user, food_allowances, extra_hours, tx, locals, cancelled, calc, read,
                   auth>>

\* The soft delete: prisma.employee.update({ data: { isActive: false } }).
EmployeeDeleteUpdate(a) ==
    /\ op[a].kind = "employee.delete" /\ op[a].pc = "update"
    /\ employee' = [employee EXCEPT ![op[a].id].isActive = FALSE]
    /\ IF op[a].hasUser THEN op' = [op EXCEPT ![a].pc = "userUpdate"]
       ELSE Respond(a, 200)
    /\ UNCHANGED <<area, user, attendance>>

\* prisma.user.update({ data: { isActive: false } }) of the employee's user.
EmployeeDeleteUserUpdate(a) ==
    /\ op[a].kind = "employee.delete" /\ op[a].pc = "userUpdate"
    /\ user' = [user EXCEPT ![op[a].id].isActive = FALSE]
    /\ Respond(a, 200)
    /\ UNCHANGED <<storage, attendance>>

\* POST /api/employees/:id/activate, up to its findUnique and the two checks.
EmployeeActivate(a, id) ==
    /\ op[a].pc = "idle"
    /\ op' = [op EXCEPT ![a] =
           IF id \notin DOMAIN employee
           THEN [kind |-> "employee.activate", id |-> id, pc |-> "done", status |-> 404]
           ELSE IF employee[id].isActive
           THEN [kind |-> "employee.activate", id |-> id, pc |-> "done", status |-> 400]
           ELSE [kind |-> "employee.activate", id |-> id, pc |-> "update", status |-> 0,
                 hasUser |-> id \in DOMAIN user]]
    /\ UNCHANGED <<storage, user, attendance>>

\* prisma.employee.update({ data: { isActive: true } })
EmployeeActivateUpdate(a) ==
    /\ op[a].kind = "employee.activate" /\ op[a].pc = "update"
    /\ employee' = [employee EXCEPT ![op[a].id].isActive = TRUE]
    /\ IF op[a].hasUser THEN op' = [op EXCEPT ![a].pc = "userUpdate"]
       ELSE Respond(a, 200)
    /\ UNCHANGED <<area, user, attendance>>

\* prisma.user.update({ data: { isActive: true } }) of the employee's user.
EmployeeActivateUserUpdate(a) ==
    /\ op[a].kind = "employee.activate" /\ op[a].pc = "userUpdate"
    /\ user' = [user EXCEPT ![op[a].id].isActive = TRUE]
    /\ Respond(a, 200)
    /\ UNCHANGED <<storage, attendance>>

\* POST /api/employees, up to the findUnique by identification. The new row's
\* id is written as its identification.
EmployeeCreate(a, data) ==
    /\ op[a].pc = "idle"
    /\ op' = [op EXCEPT ![a] =
           IF data.identification \in DOMAIN employee
           THEN [kind |-> "employee.create", data |-> data, pc |-> "done", status |-> 409]
           ELSE [kind |-> "employee.create", data |-> data, status |-> 0,
                 pc |-> IF "areaId" \in DOMAIN data THEN "findArea" ELSE "create"]]
    /\ UNCHANGED <<storage, user, attendance>>

\* prisma.area.findUnique of the area the new employee is put in.
EmployeeCreateFindArea(a) ==
    /\ op[a].kind = "employee.create" /\ op[a].pc = "findArea"
    /\ IF op[a].data.areaId \in DOMAIN area
       THEN op' = [op EXCEPT ![a].pc = "create"]
       ELSE Respond(a, 404)
    /\ UNCHANGED <<storage, user, attendance>>

\* prisma.employee.create: the unique identification and the foreign key to
\* the area are checked by the database; a violation is answered 500.
EmployeeCreateInsert(a) ==
    /\ op[a].kind = "employee.create" /\ op[a].pc = "create"
    /\ LET data == op[a].data
           areaId == Get(data, "areaId", NoArea)
       IN  IF \/ data.identification \in DOMAIN employee
              \/ areaId # NoArea /\ areaId \notin DOMAIN area
           THEN Respond(a, 500) /\ UNCHANGED employee
           ELSE /\ employee' = employee @@
                       (data.identification :> [isActive |-> TRUE, areaId |-> areaId])
                /\ Respond(a, 201)
    /\ UNCHANGED <<area, user, attendance>>

\* PUT /api/employees/:id with a new areaId, up to its findUnique.
EmployeeUpdate(a, id, data) ==
    /\ op[a].pc = "idle"
    /\ op' = [op EXCEPT ![a] =
           IF id \notin DOMAIN employee
           THEN [kind |-> "employee.update", id |-> id, data |-> data, pc |-> "done",
                 status |-> 404]
           ELSE [kind |-> "employee.update", id |-> id, data |-> data, status |-> 0,
                 pc |-> IF "areaId" \in DOMAIN data THEN "findArea" ELSE "update"]]
    /\ UNCHANGED <<storage, user, attendance>>

\* prisma.area.findUnique of the area the employee is moved to.
EmployeeUpdateFindArea(a) ==
    /\ op[a].kind = "employee.update" /\ op[a].pc = "findArea"
    /\ IF op[a].data.areaId \in DOMAIN area
       THEN op' = [op EXCEPT ![a].pc = "update"]
       ELSE Respond(a, 404)
    /\ UNCHANGED <<storage, user, attendance>>

\* prisma.employee.update({ data: { ...validatedData } })
EmployeeUpdateUpdate(a) ==
    /\ op[a].kind = "employee.update" /\ op[a].pc = "update"
    /\ LET areaId == Get(op[a].data, "areaId", employee[op[a].id].areaId)
       IN  IF areaId # NoArea /\ areaId \notin DOMAIN area
           THEN Respond(a, 500) /\ UNCHANGED employee
           ELSE /\ employee' = [employee EXCEPT ![op[a].id].areaId = areaId]
                /\ Respond(a, 200)
    /\ UNCHANGED <<area, user, attendance>>

\* ---------------------------------------------------------- AreasController

\* createTimeDate: new Date(`1970-01-01T${timeString}:00.000Z`), in minutes.
createTimeDate(timeString) == timeString.h * MinutesPerHour + timeString.m

\* formatTimeToString: date.toISOString().substr(11, 5)
formatTimeToString(date) == [h |-> date \div MinutesPerHour, m |-> date % MinutesPerHour]

\* createAreaSchema and its partial() for updates: the checks of the fields given.
createAreaSchemaOk(data) ==
    /\ "defaultEntryTime" \in DOMAIN data => TimeOk(data.defaultEntryTime)
    /\ "defaultExitTime" \in DOMAIN data => TimeOk(data.defaultExitTime)
    /\ "defaultWorkingHours" \in DOMAIN data =>
          data.defaultWorkingHours >= 1 /\ data.defaultWorkingHours <= MaxWorkingHours

\* POST /api/areas, up to the findFirst by name and the check of the times. The
\* new row's id is written as its name.
AreaCreate(a, data) ==
    /\ op[a].pc = "idle"
    /\ LET entryTime == createTimeDate(data.defaultEntryTime)
           exitTime == createTimeDate(data.defaultExitTime)
           status == IF ~createAreaSchemaOk(data) THEN 400
                     ELSE IF data.name \in DOMAIN area THEN 409
                     ELSE IF entryTime >= exitTime THEN 400
                     ELSE 0
       IN  op' = [op EXCEPT ![a] =
               [kind |-> "area.create", data |-> data, status |-> status,
                pc |-> IF status = 0 THEN "create" ELSE "done"]]
    /\ UNCHANGED <<storage, user, attendance>>

\* prisma.area.create; the unique name is checked by the database.
AreaCreateInsert(a) ==
    /\ op[a].kind = "area.create" /\ op[a].pc = "create"
    /\ LET data == op[a].data
       IN  IF data.name \in DOMAIN area
           THEN Respond(a, 500) /\ UNCHANGED area
           ELSE /\ area' = area @@
                       (data.name :>
                           [defaultWorkingHours |->
                                Get(data, "defaultWorkingHours", DefaultBaseHours),
                            defaultEntryTime |-> createTimeDate(data.defaultEntryTime),
                            defaultExitTime |-> createTimeDate(data.defaultExitTime)])
                /\ Respond(a, 201)
    /\ UNCHANGED <<employee, attendance_records, food_allowances, extra_hours, user,
                   tx, locals, cancelled, calc, read, auth>>

\* updateData of an area update: the fields given, the times as stored.
updateData(data) ==
    [k \in DOMAIN data |->
        IF k \in {"defaultEntryTime", "defaultExitTime"} THEN createTimeDate(data[k])
        ELSE data[k]]

\* PUT /api/areas/:id, up to the findUnique and the check of the times against
\* the row that was found.
AreaUpdate(a, id, data) ==
    /\ op[a].pc = "idle"
    /\ LET existingArea == area[id]
           entryTimeStr == Get(data, "defaultEntryTime",
                               formatTimeToString(existingArea.defaultEntryTime))
           exitTimeStr == Get(data, "defaultExitTime",
                              formatTimeToString(existingArea.defaultExitTime))
           status == IF ~createAreaSchemaOk(data) THEN 400
                     ELSE IF id \notin DOMAIN area THEN 404
                     ELSE IF /\ DOMAIN data \cap {"defaultEntryTime", "defaultExitTime"} # {}
                             /\ createTimeDate(entryTimeStr) >= createTimeDate(exitTimeStr)
                     THEN 400
                     ELSE 0
       IN  op' = [op EXCEPT ![a] =
               [kind |-> "area.update", id |-> id, data |-> data, status |-> status,
                pc |-> IF status = 0 THEN "update" ELSE "done"]]
    /\ UNCHANGED <<storage, user, attendance>>

\* prisma.area.update({ where: { id }, data: updateData })
AreaUpdateUpdate(a) ==
    /\ op[a].kind = "area.update" /\ op[a].pc = "update"
    /\ IF op[a].id \notin DOMAIN area
       THEN Respond(a, 500) /\ UNCHANGED area
       ELSE /\ area' = [area EXCEPT ![op[a].id] = updateData(op[a].data) @@ @]
            /\ Respond(a, 200)
    /\ UNCHANGED <<employee, attendance_records, food_allowances, extra_hours, user,
                   tx, locals, cancelled, calc, read, auth>>

\* _count of the active employees of an area.
ActiveEmployeesOf(id) ==
    Cardinality({e \in DOMAIN employee : employee[e].isActive /\ employee[e].areaId = id})

\* DELETE /api/areas/:id, up to the findUnique and the check of the count.
AreaDelete(a, id) ==
    /\ op[a].pc = "idle"
    /\ LET status == IF id \notin DOMAIN area THEN 404
                     ELSE IF ActiveEmployeesOf(id) > 0 THEN 409
                     ELSE 0
       IN  op' = [op EXCEPT ![a] =
               [kind |-> "area.delete", id |-> id, status |-> status,
                pc |-> IF status = 0 THEN "delete" ELSE "done"]]
    /\ UNCHANGED <<storage, user, attendance>>

\* prisma.area.delete: the row goes, and the optional relation of its
\* employees is set to null by the foreign key.
AreaDeleteDelete(a) ==
    /\ op[a].kind = "area.delete" /\ op[a].pc = "delete"
    /\ IF op[a].id \notin DOMAIN area
       THEN Respond(a, 500) /\ UNCHANGED <<area, employee>>
       ELSE /\ area' = [x \in DOMAIN area \ {op[a].id} |-> area[x]]
            /\ employee' = [e \in DOMAIN employee |->
                   IF employee[e].areaId = op[a].id
                   THEN [employee[e] EXCEPT !.areaId = NoArea] ELSE employee[e]]
            /\ Respond(a, 200)
    /\ UNCHANGED <<user, attendance>>

\* -------------------------------------------- getTemplate, verify, summary

\* What no read handler touches.
written == <<area, employee, attendance_records, food_allowances, extra_hours, user, tx,
             locals, cancelled, calc, op, auth>>

\* templateQuerySchema: between 1 and 10 area ids.
templateQuerySchemaOk(q) ==
    Len(q.areaIds) >= 1 /\ Len(q.areaIds) <= MaxTemplateAreas

\* include: { employees: { where: { isActive: true } } } of one area.
ActiveEmployeesIn(a) ==
    {e \in DOMAIN employee : employee[e].isActive /\ employee[e].areaId = a}

\* Is the employee of a record in one of the areas of a query?
InAreas(rec, areaIds) ==
    rec.employeeId \in DOMAIN employee
        /\ employee[rec.employeeId].areaId \in Range(areaIds)

\* Mutation: the records of every date are found.
TemplateRecordsAnyDate(q) == {rec \in attendance_records : InAreas(rec, q.areaIds)}

\* getTemplate's prisma.attendanceRecord.findMany: the committed records of
\* the date whose employee is in one of the areas.
TemplateRecords(q) ==
    {rec \in attendance_records : rec.date = q.date /\ InAreas(rec, q.areaIds)}

\* GET /api/attendance/template, up to prisma.area.findMany and the check
\* that every area was found.
GetTemplate(r, q) ==
    /\ read[r].pc = "idle"
    /\ LET found == DOMAIN area \cap Range(q.areaIds)
       IN  read' = [read EXCEPT ![r] =
               IF ~templateQuerySchemaOk(q)
               THEN [kind |-> "getTemplate", query |-> q, pc |-> "done", saw |-> <<>>,
                     status |-> 400]
               ELSE IF Cardinality(found) # Len(q.areaIds)
               THEN [kind |-> "getTemplate", query |-> q, pc |-> "done",
                     saw |-> <<storage>>, status |-> 404,
                     notFound |-> Filter(q.areaIds, found)]
               ELSE [kind |-> "getTemplate", query |-> q, pc |-> "findRecords",
                     saw |-> <<storage>>, status |-> 0,
                     areas |-> [a \in found |->
                                   [defaultWorkingHours |-> area[a].defaultWorkingHours,
                                    defaultEntryTime |->
                                        formatTimeToString(area[a].defaultEntryTime),
                                    defaultExitTime |->
                                        formatTimeToString(area[a].defaultExitTime),
                                    employees |-> ActiveEmployeesIn(a)]]]]
    /\ UNCHANGED written

\* The rest of getTemplate: the existing records are read and the template
\* is sent.
GetTemplateFindRecords(r) ==
    /\ read[r].kind = "getTemplate" /\ read[r].pc = "findRecords"
    /\ LET q == read[r].query
           areas == read[r].areas
           existingRecords == TemplateRecords(q)
           employeesWithRecords == {rec.employeeId : rec \in existingRecords}
           totalEmployees == Cardinality(UNION {areas[a].employees : a \in DOMAIN areas})
           totalWithRecords == Cardinality(existingRecords)
           template ==
               [a \in DOMAIN areas |->
                   [defaultWorkingHours |-> areas[a].defaultWorkingHours,
                    defaultEntryTime |-> areas[a].defaultEntryTime,
                    defaultExitTime |-> areas[a].defaultExitTime,
                    employees |-> [e \in areas[a].employees |->
                                      [hasExistingRecord |-> e \in employeesWithRecords]],
                    employeesCount |-> Cardinality(areas[a].employees),
                    employeesWithRecords |->
                        Cardinality(areas[a].employees \cap employeesWithRecords)]]
       IN  read' = [read EXCEPT ![r] =
               [kind |-> "getTemplate", query |-> q, pc |-> "done",
                saw |-> Append(read[r].saw, storage), status |-> 200,
                data |-> template,
                meta |-> [totalAreas |-> Cardinality(DOMAIN areas),
                          totalEmployees |-> totalEmployees,
                          employeesWithExistingRecords |-> totalWithRecords,
                          employeesPendingRegistration |->
                              totalEmployees - totalWithRecords]]]
    /\ UNCHANGED written

\* Is the area filter of a verify query in force?
HasFilters(q) == "areaIds" \in DOMAIN q /\ Len(q.areaIds) > 0

\* Mutation: the rows of the open transactions are read too.
VerifyRecordsUncommitted(q) ==
    {rec \in attendance_records \cup UNION {tx[p].attendance_records : p \in Procs} :
        rec.date = q.date /\ (HasFilters(q) => InAreas(rec, q.areaIds))}

\* verify's prisma.attendanceRecord.findMany({ where: whereClause })
VerifyRecords(q) ==
    {rec \in attendance_records :
        rec.date = q.date /\ (HasFilters(q) => InAreas(rec, q.areaIds))}

\* verify's prisma.employee.count({ where: totalEmployeesQuery })
CountActiveEmployees(q) ==
    Cardinality({e \in DOMAIN employee :
        /\ employee[e].isActive
        /\ HasFilters(q) => employee[e].areaId \in Range(q.areaIds)})

\* `${((n / total) * 100).toFixed(1)}%`: tenths of a percent, or what a
\* division by zero prints.
CompletionRate(n, total) ==
    IF total = 0
    THEN [text |-> IF n = 0 THEN "NaN%" ELSE "Infinity%"]
    ELSE [tenths |-> (2 * 1000 * n + total) \div (2 * total)]

\* record.employee.area?.name || 'Sin área'
AreaNameOf(e) ==
    IF employee[e].areaId \in DOMAIN area THEN employee[e].areaId ELSE "Sin área"

\* GET /api/attendance/verify, up to the query of the existing records.
Verify(r, q) ==
    /\ read[r].pc = "idle"
    /\ LET existingRecords == VerifyRecords(q)
       IN  read' = [read EXCEPT ![r] =
               [kind |-> "verify", query |-> q, pc |-> "count", saw |-> <<storage>>,
                status |-> 0,
                existingRecords |->
                    {[employeeId |-> rec.employeeId, area |-> AreaNameOf(rec.employeeId),
                      workedHours |-> rec.workedHours, isVacation |-> rec.isVacation]
                        : rec \in existingRecords}]]
    /\ UNCHANGED written

\* The rest of verify: the active employees are counted and the summary is sent.
VerifyCount(r) ==
    /\ read[r].kind = "verify" /\ read[r].pc = "count"
    /\ LET q == read[r].query
           existingRecords == read[r].existingRecords
           totalEmployees == CountActiveEmployees(q)
           registered == Cardinality(existingRecords)
           areaNames == {rec.area : rec \in existingRecords}
           recordsByArea ==
               [n \in areaNames |-> {rec \in existingRecords : rec.area = n}]
       IN  read' = [read EXCEPT ![r] =
               [kind |-> "verify", query |-> q, pc |-> "done",
                saw |-> Append(read[r].saw, storage), status |-> 200,
                summary |-> [totalEmployees |-> totalEmployees,
                             registered |-> registered,
                             pending |-> totalEmployees - registered,
                             completionRate |-> CompletionRate(registered, totalEmployees)],
                recordsByArea |-> recordsByArea,
                areaStats |-> [n \in areaNames |-> Cardinality(recordsByArea[n])],
                meta |-> [hasFilters |-> "areaIds" \in DOMAIN q,
                          totalRecordsFound |-> registered]]]
    /\ UNCHANGED written

RECURSIVE SumWorkedHours(_)
\* attendanceRecords.reduce((sum, record) => sum + workedHours, 0), in hundredths.
SumWorkedHours(recs) ==
    IF recs = {} THEN 0
    ELSE LET rec == CHOOSE x \in recs : TRUE
         IN  rec.workedHours + SumWorkedHours(recs \ {rec})

\* GET /api/attendance/daily-summary: one query, then the figures per area.
GetDailySummary(r, date) ==
    /\ read[r].pc = "idle"
    /\ LET areaStats ==
               [a \in DOMAIN area |->
                   LET emps == ActiveEmployeesIn(a)
                       recs == {rec \in attendance_records :
                                   rec.date = date /\ rec.employeeId \in emps}
                       registeredEmployees == Cardinality({rec.employeeId : rec \in recs})
                   IN  [totalEmployees |-> Cardinality(emps),
                        registeredEmployees |-> registeredEmployees,
                        pendingEmployees |-> Cardinality(emps) - registeredEmployees,
                        completionRate |->
                            IF Cardinality(emps) > 0
                            THEN CompletionRate(registeredEmployees, Cardinality(emps))
                            ELSE [text |-> "0%"],
                        vacationCount |-> Cardinality({rec \in recs : rec.isVacation}),
                        totalWorkedHours |-> SumWorkedHours(recs)]]
       IN  read' = [read EXCEPT ![r] =
               [kind |-> "getDailySummary", query |-> [date |-> date], pc |-> "done",
                saw |-> <<storage>>, status |-> 200, areaStats |-> areaStats]]
    /\ UNCHANGED written

\* ------------------------------------------- authMiddleware, requireRole

\* export const requireEditor = requireRole(['ADMIN', 'EDITOR'])
requireEditor == {"ADMIN", "EDITOR"}

\* The Authorization header of a request: absent, a token jwt.verify refuses,
\* or a token signed for a user id.
NoToken == [kind |-> "none"]
ForgedToken == [kind |-> "invalid"]
TokenOf(u) == [kind |-> "valid", userId |-> u]

\* The middlewares of a request have answered it: no handler will run.
Refuse(c, status) ==
    auth' = [auth EXCEPT ![c].pc = "done", ![c].status = status]

\* authMiddleware, up to prisma.user.findUnique: a request without a Bearer
\* token, or with one that jwt.verify refuses, is answered 401.
AuthMiddleware(c, route, token) ==
    /\ auth[c].pc = "idle"
    /\ auth' = [auth EXCEPT ![c] =
           IF token.kind # "valid"
           THEN [pc |-> "done", route |-> route, token |-> token, user |-> NoUser,
                 status |-> 401]
           ELSE [pc |-> "findUser", route |-> route, token |-> token, user |-> NoUser,
                 status |-> 0]]
    /\ UNCHANGED <<storage, tx, locals, cancelled, calc, user, op, read>>

\* prisma.user.findUnique and what follows it: an unknown or inactive user is
\* answered 401; otherwise req.user is set from the row and, after
\* setUserContext, next() is called.
AuthFindUser(c) ==
    /\ auth[c].pc = "findUser"
    /\ LET id == auth[c].token.userId
       IN  IF id \notin DOMAIN user \/ ~user[id].isActive
           THEN Refuse(c, 401)
           ELSE auth' = [auth EXCEPT ![c].pc = "requireRole",
                                     ![c].user = [id |-> id, role |-> user[id].role]]
    /\ UNCHANGED <<storage, tx, locals, cancelled, calc, user, op, read>>

\* Mutation: every authenticated user passes.
RequireAnyRole(c, roles) ==
    /\ auth[c].pc = "requireRole"
    /\ IF auth[c].user = NoUser
       THEN Refuse(c, 401)
       ELSE auth' = [auth EXCEPT ![c].pc = "handler"]
    /\ UNCHANGED <<storage, tx, locals, cancelled, calc, user, op, read>>

\* requireRole(roles): 401 without req.user, 403 when the role of req.user is
\* not among the roles, otherwise next(): the handler of the route is called.
RequireRole(c, roles) ==
    /\ auth[c].pc = "requireRole"
    /\ IF auth[c].user = NoUser
       THEN Refuse(c, 401)
       ELSE IF auth[c].user.role \notin roles
       THEN Refuse(c, 403)
       ELSE auth' = [auth EXCEPT ![c].pc = "handler"]
    /\ UNCHANGED <<storage, tx, locals, cancelled, calc, user, op, read>>

\* ------------------------------------------------------------------ inputs

T(h, m) == [h |-> h, m |-> m]

\* The records of the README's example request, and the edge cases of the
\* calculation and of the schema, each without its employeeId.
WorkDay ==
    [entryTime |-> T(6, 30), exitTime |-> T(16, 0), lunchDuration |-> 30,
     isVacation |-> FALSE, permissionHours |-> 0,
     foodAllowance |-> [breakfast |-> 1, snack1 |-> 1, lunch |-> 1, transport |-> 2500]]
Vacation == [isVacation |-> TRUE, foodAllowance |-> [transport |-> 5000]]
VacationWithTimes == [isVacation |-> TRUE, entryTime |-> T(6, 0), exitTime |-> T(19, 0)]
PermissionDay ==
    [entryTime |-> T(6, 30), exitTime |-> T(14, 0), permissionHours |-> 2 * TicksPerHour,
     foodAllowance |-> [breakfast |-> 1, lunch |-> 1]]
NoSchedule == [permissionHours |-> 2 * TicksPerHour]
NightShift == [entryTime |-> T(22, 0), exitTime |-> T(6, 0), lunchDuration |-> 0]
LongDay == [entryTime |-> T(6, 0), exitTime |-> T(19, 1)]
FractionalPermission ==
    [entryTime |-> T(6, 30), exitTime |-> T(17, 30), lunchDuration |-> 30,
     permissionHours |-> 1497]
LunchTooLong == [entryTime |-> T(6, 30), exitTime |-> T(16, 0), lunchDuration |-> 181]
TooManyMeals == [isVacation |-> TRUE, foodAllowance |-> [breakfast |-> 6]]
AtTheLimits ==
    [entryTime |-> T(6, 0), exitTime |-> T(19, 0), lunchDuration |-> MaxLunchDuration,
     permissionHours |-> MaxPermissionHours * TicksPerHour,
     foodAllowance |-> [k \in MealFields |-> MaxMealCount]
                          @@ [transport |-> MaxTransport * 1000]]
EntryOnly ==
    [entryTime |-> T(6, 0), lunchDuration |-> 60, permissionHours |-> 2 * TicksPerHour]
ExitOnly == [exitTime |-> T(19, 0), lunchDuration |-> 0]
PermissionTooLong == [permissionHours |-> MaxPermissionHours * TicksPerHour + 3]
TransportTooHigh == [foodAllowance |-> [transport |-> MaxTransport * 1000 + 1]]

WithEmployee(shape, e) == shape @@ [employeeId |-> e]

\* Every sequence of 0 to MaxRecords elements of R.
BatchesOf(R) == UNION {[1..n -> R] : n \in 0..MaxRecords}

\* What concurrent requests submit: the same working day for any employee.
ConcurrentRecords == {WithEmployee(WorkDay, e) : e \in EmployeeIds}

\* What a single request submits: every shape for the two active employees,
\* and a working day for the inactive one.
SingleShapes ==
    {WorkDay, Vacation, VacationWithTimes, PermissionDay, NoSchedule, NightShift,
     LongDay, FractionalPermission, LunchTooLong, TooManyMeals, AtTheLimits,
     PermissionTooLong, TransportTooHigh, EntryOnly, ExitOnly}
SingleRecords ==
    {WithEmployee(s, e) : s \in SingleShapes, e \in {"e1", "e2"}}
        \cup {WithEmployee(WorkDay, "e3")}

\* The employees the employee requests name: one with a user, the inactive
\* one, and one that does not exist.
AdminEmployeeIds == {"e1", "e3", "e9"}

\* The bodies of the requests that create or move an employee.
NewEmployees ==
    {[identification |-> "e4", areaId |-> "a2"], [identification |-> "e1"]}
EmployeeMoves == {[areaId |-> "a1"]}

\* The bodies of the requests that create or change an area.
NewAreas ==
    {[name |-> "a3", defaultEntryTime |-> T(7, 0), defaultExitTime |-> T(15, 0)],
     [name |-> "a3", defaultEntryTime |-> T(16, 0), defaultExitTime |-> T(7, 0)],
     [name |-> "a1", defaultEntryTime |-> T(7, 0), defaultExitTime |-> T(15, 0)]}
AreaChanges ==
    {[defaultWorkingHours |-> 9], [defaultEntryTime |-> T(17, 0)],
     [defaultExitTime |-> T(6, 0)]}

\* The body of the request that moves an employee to the other area.
Reassignment == [areaId |-> "a2"]

\* The queries of the read requests: one area, both areas, an unknown area;
\* the whole company or one area.
TemplateQueries ==
    [areaIds : {<<"a1">>, <<"a1", "a2">>, <<"a9">>}, date : Dates]
VerifyQueries ==
    [date : Dates] \cup [date : Dates, areaIds : {<<"a1">>}]

\* ---------------------------------------------------------- specifications

\* Two bulk submissions in flight, with storage faults and cancellations.
Next ==
    \E p \in Procs :
        \/ \E d \in Dates, rs \in BatchesOf(ConcurrentRecords) \ {<<>>} :
               BulkCreateRequest(p, [date |-> d, records |-> rs])
        \/ BulkCreateFindEmployees(p)
        \/ TxFindUnique(p)
        \/ TxCreateAttendance(p)
        \/ TxCreateFood(p)
        \/ TxCreateExtra(p)
        \/ TxStatementFault(p)
        \/ TxConnectionFault(p)
        \/ TxDeadlockDetected(p)
        \/ BulkCreateCommit(p)
        \/ RequestCancelled(p)

Spec == Init /\ [][Next]_vars

\* A single bulk submission on a healthy database, over every record shape.
NextSingle ==
    \E p \in {CHOOSE q \in Procs : \A r \in Procs : q <= r} :
        \/ \E d \in Dates, rs \in BatchesOf(SingleRecords) :
               BulkCreateRequest(p, [date |-> d, records |-> rs])
        \/ BulkCreateFindEmployees(p)
        \/ TxFindUnique(p)
        \/ TxCreateAttendance(p)
        \/ TxCreateFood(p)
        \/ TxCreateExtra(p)
        \/ BulkCreateCommit(p)

SpecSingle == Init /\ [][NextSingle]_vars

\* The steps of the area and employee requests.
AdminStep(a) ==
    \/ \E id \in AdminEmployeeIds : EmployeeDelete(a, id)
    \/ EmployeeDeleteUpdate(a)
    \/ EmployeeDeleteUserUpdate(a)
    \/ \E id \in AdminEmployeeIds : EmployeeActivate(a, id)
    \/ EmployeeActivateUpdate(a)
    \/ EmployeeActivateUserUpdate(a)
    \/ \E data \in NewEmployees : EmployeeCreate(a, data)
    \/ EmployeeCreateFindArea(a)
    \/ EmployeeCreateInsert(a)
    \/ \E id \in AdminEmployeeIds, data \in EmployeeMoves : EmployeeUpdate(a, id, data)
    \/ EmployeeUpdateFindArea(a)
    \/ EmployeeUpdateUpdate(a)
    \/ \E data \in NewAreas : AreaCreate(a, data)
    \/ AreaCreateInsert(a)
    \/ \E id \in AreaIds, data \in AreaChanges : AreaUpdate(a, id, data)
    \/ AreaUpdateUpdate(a)
    \/ \E id \in AreaIds \cup {"a3"} : AreaDelete(a, id)
    \/ AreaDeleteDelete(a)

\* The steps of one bulk submission on a healthy database.
BulkStep(p) ==
    \/ \E rs \in BatchesOf(ConcurrentRecords) \ {<<>>} :
           BulkCreateRequest(p, [date |-> "2025-01-06", records |-> rs])
    \/ BulkCreateFindEmployees(p)
    \/ TxFindUnique(p)
    \/ TxCreateAttendance(p)
    \/ TxCreateFood(p)
    \/ TxCreateExtra(p)
    \/ BulkCreateCommit(p)

\* One bulk submission among area and employee requests.
NextAdmin ==
    \/ \E p \in {CHOOSE q \in Procs : \A r \in Procs : q <= r} : BulkStep(p)
    \/ \E a \in Admins : AdminStep(a)

SpecAdmin == Init /\ [][NextAdmin]_vars

\* The steps of the read requests.
ReadStep(r) ==
    \/ \E q \in TemplateQueries : GetTemplate(r, q)
    \/ GetTemplateFindRecords(r)
    \/ \E q \in VerifyQueries : Verify(r, q)
    \/ VerifyCount(r)
    \/ \E d \in Dates : GetDailySummary(r, d)

\* One bulk submission and one deactivation or reassignment of an employee
\* among read requests.
NextReads ==
    \/ \E p \in {CHOOSE q \in Procs : \A r \in Procs : q <= r} : BulkStep(p)
    \/ \E a \in {CHOOSE b \in Admins : \A c \in Admins : b <= c} :
           \/ EmployeeDelete(a, "e1")
           \/ EmployeeDeleteUpdate(a)
           \/ EmployeeDeleteUserUpdate(a)
           \/ EmployeeUpdate(a, "e1", Reassignment)
           \/ EmployeeUpdateFindArea(a)
           \/ EmployeeUpdateUpdate(a)
    \/ \E r \in Readers : ReadStep(r)

SpecReads == Init /\ [][NextReads]_vars

\* Every operation of the program: two bulk submissions of the working day
\* of one employee, an area or employee request, a reactivation or the
\* deletion of an area after it, and a read request.
NextAll ==
    \/ \E p \in Procs :
           \/ BulkCreateRequest(p, [date |-> "2025-01-06",
                                    records |-> <<WithEmployee(WorkDay, "e1")>>])
           \/ BulkCreateFindEmployees(p)
           \/ TxFindUnique(p)
           \/ TxCreateAttendance(p)
           \/ TxCreateFood(p)
           \/ TxCreateExtra(p)
           \/ BulkCreateCommit(p)
    \/ \E a \in {CHOOSE b \in Admins : \A c \in Admins : b <= c} : AdminStep(a)
    \/ \E a \in Admins \ {CHOOSE b \in Admins : \A c \in Admins : b <= c} :
           \/ EmployeeActivate(a, "e1")
           \/ EmployeeActivateUpdate(a)
           \/ EmployeeActivateUserUpdate(a)
           \/ AreaDelete(a, "a1")
           \/ AreaDeleteDelete(a)
    \/ \E r \in {CHOOSE q \in Readers : \A t \in Readers : q <= t} :
           \/ GetTemplate(r, [areaIds |-> <<"a1">>, date |-> "2025-01-06"])
           \/ GetTemplateFindRecords(r)
           \/ Verify(r, [date |-> "2025-01-06"])
           \/ VerifyCount(r)
           \/ GetDailySummary(r, "2025-01-06")

SpecAll == Init /\ [][NextAll]_vars

\* The routes of the attendance router and the tokens requests carry: none,
\* a forged one, one of each user and one of a user that does not exist.
Routes == {"template", "bulk", "verify", "daily-summary"}
Tokens == {NoToken, ForgedToken} \cup {TokenOf(u) : u \in EmployeeIds \cup {"e9"}}

\* router.get('/template' | '/verify' | '/daily-summary') and
\* router.post('/bulk'): the handler a route calls once requireEditor has
\* called next(), on the slot of the request.
Handle(c) ==
    /\ auth[c].pc = "handler"
    /\ \/ auth[c].route = "template"
          /\ GetTemplate(c, [areaIds |-> <<"a1">>, date |-> "2025-01-06"])
       \/ auth[c].route = "verify" /\ Verify(c, [date |-> "2025-01-06"])
       \/ auth[c].route = "daily-summary" /\ GetDailySummary(c, "2025-01-06")
       \/ /\ auth[c].route = "bulk"
          /\ c \in Procs
          /\ BulkCreateRequest(c, [date |-> "2025-01-06",
                                   records |-> <<WithEmployee(WorkDay, "e1")>>])

\* Attendance requests through their middlewares, while the employee of the
\* administrator is deactivated.
NextAuth ==
    \/ \E c \in Readers :
           \/ \E route \in Routes, token \in Tokens : AuthMiddleware(c, route, token)
           \/ AuthFindUser(c)
           \/ RequireRole(c, requireEditor)
           \/ Handle(c)
           \/ GetTemplateFindRecords(c)
           \/ VerifyCount(c)
    \/ \E p \in Procs :
           \/ BulkCreateFindEmployees(p)
           \/ TxFindUnique(p)
           \/ TxCreateAttendance(p)
           \/ TxCreateFood(p)
           \/ TxCreateExtra(p)
           \/ BulkCreateCommit(p)
    \/ \E a \in {CHOOSE b \in Admins : \A c \in Admins : b <= c} :
           \/ EmployeeDelete(a, "e1")
           \/ EmployeeDeleteUpdate(a)
           \/ EmployeeDeleteUserUpdate(a)

SpecAuth == Init /\ [][NextAuth]_vars

\* Requests that carry the token of the administrator, while the employee of
\* the administrator is deactivated and activated again.
NextSession ==
    \/ \E c \in Readers :
           \/ \E route \in Routes : AuthMiddleware(c, route, TokenOf("e1"))
           \/ AuthFindUser(c)
           \/ RequireRole(c, requireEditor)
           \/ Handle(c)
           \/ GetTemplateFindRecords(c)
           \/ VerifyCount(c)
    \/ \E p \in Procs :
           \/ BulkCreateFindEmployees(p)
           \/ TxFindUnique(p)
           \/ TxCreateAttendance(p)
           \/ TxCreateFood(p)
           \/ TxCreateExtra(p)
           \/ BulkCreateCommit(p)
    \/ \E a \in Admins :
           \/ EmployeeDelete(a, "e1")
           \/ EmployeeDeleteUpdate(a)
           \/ EmployeeDeleteUserUpdate(a)
           \/ EmployeeActivate(a, "e1")
           \/ EmployeeActivateUpdate(a)
           \/ EmployeeActivateUserUpdate(a)

SpecSession == Init /\ [][NextSession]_vars

\* The response of request a was sent: the next request is taken.
NextRequest(a) ==
    /\ op[a].pc = "done"
    /\ op' = [op EXCEPT ![a] = [pc |-> "idle", kind |-> ""]]
    /\ UNCHANGED <<storage, user, attendance>>

\* The deletion of area a1 among the requests that empty it and that put an
\* employee into it: a deactivation and a reactivation of its employee, a
\* reassignment, a creation.
NextAreaDelete ==
    \E a \in Admins :
        \/ AreaDelete(a, "a1")
        \/ AreaDeleteDelete(a)
        \/ EmployeeDelete(a, "e1")
        \/ EmployeeDeleteUpdate(a)
        \/ EmployeeDeleteUserUpdate(a)
        \/ EmployeeActivate(a, "e1")
        \/ EmployeeActivateUpdate(a)
        \/ EmployeeActivateUserUpdate(a)
        \/ \E data \in EmployeeMoves : EmployeeUpdate(a, "e2", data)
        \/ EmployeeUpdateFindArea(a)
        \/ EmployeeUpdateUpdate(a)
        \/ EmployeeCreate(a, [identification |-> "e4", areaId |-> "a1"])
        \/ EmployeeCreateFindArea(a)
        \/ EmployeeCreateInsert(a)
        \/ NextRequest(a)

SpecAreaDelete == Init /\ [][NextAreaDelete]_vars

\* The bodies of the requests that change one time of an area, or both.
AreaTimeChanges ==
    {[defaultEntryTime |-> T(17, 0)], [defaultExitTime |-> T(16, 0)],
     [defaultExitTime |-> T(6, 0)],
     [defaultEntryTime |-> T(8, 0), defaultExitTime |-> T(17, 30)]}

\* Area creations and updates in flight together.
NextAreas ==
    \E a \in Admins :
        \/ \E data \in NewAreas : AreaCreate(a, data)
        \/ AreaCreateInsert(a)
        \/ \E id \in AreaIds \cup {"a3"}, data \in AreaTimeChanges : AreaUpdate(a, id, data)
        \/ AreaUpdateUpdate(a)

SpecAreas == Init /\ [][NextAreas]_vars

\* --------------------------------------------------- batches at the limit

\* The lengths around the limits of the records array.
BoundarySizes == {0, 1, MaxBatchSize, MaxBatchSize + 1}

\* A batch of n records, all alike.
UniformBatch(n, rec) == [k \in 1..n |-> rec]

BoundaryBatches ==
    {UniformBatch(n, rec) : n \in BoundarySizes, rec \in ConcurrentRecords}

\* Two bulk submissions of an empty, a one-record, a full or an overfull batch.
NextBoundary ==
    \E p \in Procs :
        \/ \E rs \in BoundaryBatches :
               BulkCreateRequest(p, [date |-> "2025-01-06", records |-> rs])
        \/ BulkCreateFindEmployees(p)
        \/ TxFindUnique(p)
        \/ TxCreateAttendance(p)
        \/ TxCreateFood(p)
        \/ TxCreateExtra(p)
        \/ BulkCreateCommit(p)

SpecBoundary == Init /\ [][NextBoundary]_vars

\* ------------------------------------------------- the calculation helpers

\* Times of day the helpers are applied to: midnight, the last minute of the
\* day, and the entry and exit times of the README's day and night shifts.
CalcTimes == {T(0, 0), T(6, 0), T(6, 30), T(14, 20), T(16, 0), T(22, 0), T(23, 59)}
CalcLunches == {0, 20, 30, MaxLunchDuration}
CalcPermissions == {0, 1497, 2 * TicksPerHour, MaxPermissionHours * TicksPerHour}

\* Worked hours around every standard day and around the supplementary cap.
CalcWorkedHours ==
    {0, 6 * TicksPerHour + 1500}
        \cup {s * TicksPerHour + d : s \in {8, 10, 12}, d \in {-3, 0, 3, 1500}}
        \cup {24 * TicksPerHour}

\* What the lookup of bulkCreate gives for an employee: the standard day of
\* the area, 0 standing for an employee without area.
CalcEmployees ==
    {[areaId |-> a, defaultWorkingHours |-> area[a].defaultWorkingHours] : a \in AreaIds}
        \cup {[areaId |-> NoArea, defaultWorkingHours |-> 0]}

\* The arguments a helper is about to be applied to.
CalcArguments ==
    [fn : {"calculateWorkedHours"}, entryTime : CalcTimes, exitTime : CalcTimes,
     lunchDuration : CalcLunches, permissionHours : CalcPermissions]
        \cup [fn : {"calculateExtraHours"}, workedHours : CalcWorkedHours,
              employee : CalcEmployees]

\* A helper is about to be applied to any of the arguments.
InitCalc ==
    /\ InitBulk
    /\ calc \in CalcArguments

\* calculateWorkedHours(record.entryTime, record.exitTime, lunch, permission)
ApplyCalculateWorkedHours ==
    /\ calc.fn = "calculateWorkedHours"
    /\ "result" \notin DOMAIN calc
    /\ calc' = calc @@ [result |-> calculateWorkedHours(calc.entryTime, calc.exitTime,
                                       calc.lunchDuration, calc.permissionHours)]
    /\ UNCHANGED <<storage, tx, locals, cancelled, user, op, read, auth>>

\* calculateExtraHours(workedHours, employee.area?.defaultWorkingHours || 8)
ApplyCalculateExtraHours ==
    /\ calc.fn = "calculateExtraHours"
    /\ "result" \notin DOMAIN calc
    /\ calc' = calc @@ [result |-> calculateExtraHours(calc.workedHours,
                             OrElse(calc.employee.defaultWorkingHours, DefaultBaseHours))]
    /\ UNCHANGED <<storage, tx, locals, cancelled, user, op, read, auth>>

NextCalc ==
    \/ ApplyCalculateWorkedHours
    \/ ApplyCalculateExtraHours

\* The two calculation helpers, each applied once to any arguments.
SpecCalc == InitCalc /\ [][NextCalc]_vars

\* ------------------------------------------------------------------ claims

\* Is a row for (employeeId, date) in the table?
Stored(employeeId, date) ==
    \E r \in attendance_records : SameKey(r, employeeId, date)

\* The rows of the three tables that request p created.
RowsOf(p) ==
    {r \in attendance_records : r.id[1] = p}
        \cup {f \in food_allowances \cup extra_hours : f.attendanceId[1] = p}

\* The employeeIds of request p that resolve to no active employee, in order.
Unresolved(p) ==
    Filter(employeeIds(p), {e \in DOMAIN employee : employee[e].isActive})

\* Does the batch of request p name an employee twice?
HasDuplicateIds(p) ==
    \E j, k \in 1..Len(records[p]) :
        j < k /\ records[p][j].employeeId = records[p][k].employeeId

\* Was record k of request p rejected in the result's errors?
RejectedAt(p, k) == \E e \in Range(errors[p]) : e.index = k - 1

\* C1: in every reachable state the table holds at most one AttendanceRecord
\* for each (employeeId, date) pair, also after interleaved bulk submissions.
C1_UniqueEmployeeDate ==
    \A r1, r2 \in attendance_records :
        SameKey(r1, r2.employeeId, r2.date) => r1 = r2

\* Two submissions for one date both passed the existence check for an
\* employee; one committed the row, the other hit the unique constraint.
C1_Witness ==
    \E p, q \in Procs :
        /\ p # q /\ pc[p] = "done" /\ pc[q] = "done"
        /\ body[p].date = body[q].date
        /\ \E e \in Range(errors[q]) :
              /\ e.error.message = "Unique constraint failed"
              /\ \E r \in attendance_records :
                    r.id[1] = p /\ SameKey(r, e.employeeId, body[q].date)

\* C2: a submission that hit the unique constraint on one record is answered
\* as a success and every other record of it is in storage.
C2_OthersStillCommitted ==
    \A p \in Procs :
        (pc[p] = "done" /\ tx[p].cause = "unique") =>
            /\ response[p].status = 201
            /\ \A k \in 1..Len(records[p]) :
                  Stored(records[p][k].employeeId, body[p].date)

DuplicateEntry(p) ==
    [index |-> i[p] - 1, employeeId |-> records[p][i[p]].employeeId,
     error |-> Message("Ya existe registro para esta fecha")]

\* C4: a submission repeated for a date is idempotent on storage: whenever the
\* existence check of a record runs and its (employeeId, date) is already
\* committed, the record is rejected as a duplicate and not processed; and in
\* every step each stored record stays stored unchanged, with its
\* FoodAllowance and ExtraHours rows, as the only record of its key.
C4_RetryIsIdempotent ==
    [][ /\ \A p \in Procs :
              ( /\ pc[p] = "findUnique"
                /\ tx[p].state = "open"
                /\ <<pc'[p], i'[p]>> # <<pc[p], i[p]>>
                /\ Stored(records[p][i[p]].employeeId, body[p].date) )
              => /\ errors'[p] = Append(errors[p], DuplicateEntry(p))
                 /\ processedRecords'[p] = processedRecords[p]
        /\ \A r \in attendance_records :
              /\ r \in attendance_records'
              /\ Cardinality({x \in attendance_records' :
                                 SameKey(x, r.employeeId, r.date)}) = 1
              /\ {f \in food_allowances' : f.attendanceId = r.id}
                    = {f \in food_allowances : f.attendanceId = r.id}
              /\ {x \in extra_hours' : x.attendanceId = r.id}
                    = {x \in extra_hours : x.attendanceId = r.id}
      ]_vars

\* A batch of two records was committed and then submitted again: the retry
\* rejected both as duplicates and the first submission's rows are the stored ones.
C4_Witness ==
    \E p, q \in Procs :
        /\ p # q /\ pc[p] = "done" /\ pc[q] = "done"
        /\ body[p] = body[q] /\ Len(records[p]) = 2
        /\ response[q].status = 201
        /\ Len(errors[q]) = 2
        /\ \A e \in Range(errors[q]) :
              e.error = Message("Ya existe registro para esta fecha")
        /\ processedRecords[q] = <<>>
        /\ Cardinality(attendance_records) = 2
        /\ \A r \in attendance_records : r.id[1] = p

\* C5: every stored AttendanceRecord has exactly one FoodAllowance row, no
\* FoodAllowance or ExtraHours row is stored without its AttendanceRecord, and
\* no record that raised an error in bulkCreate (its FoodAllowance or
\* ExtraHours creation among them) has its AttendanceRecord in storage.
C5_NoPartialRecord ==
    /\ \A r \in attendance_records :
          /\ Cardinality({f \in food_allowances : f.attendanceId = r.id}) = 1
          /\ ~RejectedAt(r.id[1], r.id[2])
    /\ \A f \in food_allowances \cup extra_hours :
          \E r \in attendance_records : r.id = f.attendanceId

\* The FoodAllowance or ExtraHours creation of a record failed after its
\* AttendanceRecord had been created, in a submission that has finished while
\* another submission's records are stored.
C5_Witness ==
    \E p \in Procs :
        /\ pc[p] = "done"
        /\ \E e \in Range(errors[p]) :
              e.error.call \in {"foodAllowance.create", "extraHours.create"}
        /\ attendance_records # {}

\* C6: a submission whose transaction met a storage fault leaves none of its
\* rows in storage and is answered with a 500-class error.
C6_FaultFailsBatch ==
    \A p \in Procs :
        (pc[p] = "done" /\ tx[p].cause \in {"statement", "connection", "deadlock"}) =>
            /\ RowsOf(p) = {}
            /\ response[p].status = 500

\* C7: no row of a submission cancelled while its transaction was open is
\* ever in storage.
C7_CancelRollsBack ==
    \A p \in Procs : cancelled[p] => RowsOf(p) = {}

\* C8: a submission naming an active employee more than once is not failed:
\* the first occurrence of each employee is committed and each later
\* occurrence is rejected.
C8_DuplicateInBatch ==
    \A p \in Procs :
        (pc[p] = "done" /\ HasDuplicateIds(p) /\ Unresolved(p) = <<>>) =>
            /\ response[p].status = 201
            /\ \A k \in 1..Len(records[p]) :
                  IF \E j \in 1..(k - 1) :
                        records[p][j].employeeId = records[p][k].employeeId
                  THEN RejectedAt(p, k)
                  ELSE \E r \in attendance_records : r.id = <<p, k>>

\* C9: every stored AttendanceRecord with isVacation = true has workedHours = 0
\* and no ExtraHours row, whatever entry and exit times were submitted.
C9_VacationHasNoHours ==
    \A r \in attendance_records :
        r.isVacation =>
            /\ r.workedHours = 0
            /\ ~\E x \in extra_hours : x.attendanceId = r.id

\* A stored vacation record that was submitted with entry and exit times 13
\* hours apart.
C9_Witness ==
    \E r \in attendance_records :
        /\ r.isVacation
        /\ r.entryTime # <<>> /\ r.exitTime # <<>>
        /\ r.exitTime[1] - r.entryTime[1] > 12 * MinutesPerHour

\* C10: for every stored AttendanceRecord an ExtraHours row exists if and only
\* if one of the three buckets computed for the submitted record is greater
\* than 0, there is at most one, and its three values are the classifier's
\* output for the record's stored workedHours and the standard hours of its
\* employee's area.
C10_ExtraHoursIffOvertime ==
    \A r \in attendance_records :
        LET rec == records[r.id[1]][r.id[2]]
            emp == employees[r.id[1]][r.employeeId]
            c == Computed(rec, emp)
            rows == {x \in extra_hours : x.attendanceId = r.id}
            standard == IF emp.areaId \in DOMAIN area
                        THEN area[emp.areaId].defaultWorkingHours
                        ELSE DefaultBaseHours
            out == calculateExtraHours(r.workedHours * TicksPerCenti, standard)
        IN  /\ rows # {} <=>
                  (c.nightHours > 0 \/ c.supplementaryHours > 0
                      \/ c.extraordinaryHours > 0)
            /\ Cardinality(rows) <= 1
            /\ \A x \in rows :
                  /\ x.nightHours * TicksPerCenti = out.nightHours
                  /\ x.supplementaryHours * TicksPerCenti = out.supplementaryHours
                  /\ x.extraordinaryHours * TicksPerCenti = out.extraordinaryHours

\* A stored record with both supplementary and extraordinary hours, and one
\* without an ExtraHours row.
C10_Witness ==
    /\ \E x \in extra_hours :
          /\ x.supplementaryHours = SupplementaryCap * 100
          /\ x.extraordinaryHours > 0
          /\ \E r \in attendance_records : r.id = x.attendanceId /\ ~r.isVacation
    /\ \E r \in attendance_records :
          ~r.isVacation /\ ~\E x \in extra_hours : x.attendanceId = r.id

\* The formula of C11 without its two examples: max(0, elapsed - lunch/60 -
\* permission), elapsed being exit - entry, plus 24 hours when the exit is
\* earlier than the entry; never negative.
WorkedHoursFormulaHolds ==
    LET entry == calc.entryTime.h * TicksPerHour + calc.entryTime.m * TicksPerMinute
        exit == calc.exitTime.h * TicksPerHour + calc.exitTime.m * TicksPerMinute
        elapsed == IF exit >= entry THEN exit - entry
                   ELSE exit - entry + 24 * TicksPerHour
        net == elapsed - calc.lunchDuration * TicksPerMinute - calc.permissionHours
    IN  /\ calc.result = (IF net > 0 THEN net ELSE 0)
        /\ calc.result >= 0

\* Has calculateWorkedHours been applied to these arguments?
AppliedTo(entryTime, exitTime, lunchDuration, permissionHours) ==
    /\ calc.fn = "calculateWorkedHours"
    /\ "result" \in DOMAIN calc
    /\ calc.entryTime = entryTime
    /\ calc.exitTime = exitTime
    /\ calc.lunchDuration = lunchDuration
    /\ calc.permissionHours = permissionHours

C12_ExtraHoursBuckets ==
    (calc.fn = "calculateExtraHours" /\ "result" \in DOMAIN calc) =>
        LET w == calc.workedHours
            given == IF calc.employee.areaId \in DOMAIN area
                     THEN area[calc.employee.areaId].defaultWorkingHours ELSE 0
            s == (IF given > 0 THEN given ELSE 8) * TicksPerHour
            r == calc.result
        IN  /\ r.nightHours = 0
            /\ w <= s => r.supplementaryHours = 0 /\ r.extraordinaryHours = 0
            /\ w > s =>
                  /\ r.supplementaryHours = Min(w - s, 2 * TicksPerHour)
                  /\ r.extraordinaryHours = Max(0, w - s - 2 * TicksPerHour)
                  /\ r.supplementaryHours + r.extraordinaryHours = w - s

\* The helper has been applied to more than two hours of overtime of an
\* employee without area.
C12_Witness ==
    /\ calc.fn = "calculateExtraHours"
    /\ "result" \in DOMAIN calc
    /\ calc.employee.areaId = NoArea
    /\ calc.result.supplementaryHours = 2 * TicksPerHour
    /\ calc.result.extraordinaryHours > 0

\* Is the submitted batch of request p empty or longer than 1000 records?
WrongSize(b) == Len(b.records) = 0 \/ Len(b.records) = 1001

\* C13: a bulk submission of exactly 1000 records passes the structural
\* validation; one of 1001 records, or of none, is rejected by it (400) in the
\* step that takes the request, before any read or write of storage: nothing
\* is looked up, no transaction is opened, no table changes, and the request
\* is over.
C13_BatchSizeLimit ==
    /\ [](\A p \in Procs :
            /\ (pc[p] # "idle" /\ Len(body[p].records) = 1000) =>
                   /\ response[p].status # 400
                   /\ Len(records[p]) = 1000
            /\ (pc[p] # "idle" /\ WrongSize(body[p])) =>
                   /\ pc[p] = "done"
                   /\ response[p] = [status |-> 400]
                   /\ tx[p] = NoTx
                   /\ RowsOf(p) = {})
    /\ [][\A p \in Procs :
            (pc[p] = "idle" /\ pc'[p] # "idle" /\ WrongSize(body'[p])) =>
                /\ pc'[p] = "done"
                /\ storage' = storage
                /\ tx' = tx
                /\ employees' = employees]_vars

\* One request of exactly 1000 records is past the validation while another
\* of 1001 records has been answered 400.
C13_Witness ==
    \E p, q \in Procs :
        /\ Len(body[p].records) = 1000
        /\ pc[p] = "findEmployees"
        /\ Len(body[q].records) = 1001
        /\ response[q].status = 400

\* C14: a submitted record that is not flagged vacation and has both entryTime
\* and exitTime with entryTime >= exitTime is rejected with a validation error
\* (the request is refused as a whole, or the record is in the result's
\* errors) and no AttendanceRecord is stored for it.
C14_IllogicalTimesRejected ==
    \A p \in Procs :
        pc[p] = "done" =>
            \A k \in 1..Len(body[p].records) :
                LET rec == body[p].records[k]
                IN  (/\ ~Get(rec, "isVacation", FALSE)
                     /\ "entryTime" \in DOMAIN rec
                     /\ "exitTime" \in DOMAIN rec
                     /\ TimeMinutes(rec.entryTime) >= TimeMinutes(rec.exitTime)) =>
                        /\ response[p].status # 201 \/ RejectedAt(p, k)
                        /\ ~\E r \in attendance_records : r.id = <<p, k>>

\* C15: every stored AttendanceRecord has lunchDuration in [0,180] and
\* permissionHours in [0,12], and every stored FoodAllowance has each of its
\* six meal counts in [0,5] and transport in [0,50]; so a submission with an
\* out-of-range value stores nothing out of range.
C15_StoredValuesInRange ==
    /\ \A r \in attendance_records :
          /\ r.lunchDuration >= 0 /\ r.lunchDuration <= 180
          /\ r.permissionHours >= 0 /\ r.permissionHours <= 12 * 100
    /\ \A f \in food_allowances :
          /\ \A k \in MealFields : f[k] >= 0 /\ f[k] <= 5
          /\ f.transport >= 0 /\ f.transport <= 50 * 100

\* A record submitted with every value at its upper limit is stored as such.
C15_Witness ==
    \E r \in attendance_records, f \in food_allowances :
        /\ f.attendanceId = r.id
        /\ r.lunchDuration = 180
        /\ r.permissionHours = 12 * 100
        /\ \A k \in MealFields : f[k] = 5
        /\ f.transport = 50 * 100

\* C16: bulkCreate never commits an AttendanceRecord for an employee who is
\* inactive at the time of the commit, also when EmployeesController.delete
\* deactivates the employee between the active-employee lookup of bulkCreate
\* and its transaction.
C16_NoRecordForInactive ==
    [][\A r \in attendance_records' \ attendance_records :
           employee'[r.employeeId].isActive]_vars

\* Has a record of the employee for the date been committed?
CommittedOn(e, d) ==
    \E rec \in attendance_records : rec.employeeId = e /\ rec.date = d

\* The committed records of a date that are in the scope of a verify query.
CommittedInScope(q) ==
    {rec \in attendance_records :
        /\ rec.date = q.date
        /\ "areaIds" \in DOMAIN q =>
               \E k \in 1..Len(q.areaIds) : employee[rec.employeeId].areaId = q.areaIds[k]}

\* The active employees that are in the scope of a verify query.
ActiveInScope(q) ==
    {e \in DOMAIN employee :
        /\ employee[e].isActive
        /\ "areaIds" \in DOMAIN q =>
               \E k \in 1..Len(q.areaIds) : employee[e].areaId = q.areaIds[k]}

\* Does a read request send its result in this step?
Answers(r, kind) ==
    read[r].pc # "done" /\ read'[r].pc = "done" /\ read'[r].kind = kind
        /\ read'[r].status = 200

\* The attendance records that were committed when a read request made its
\* first query.
CommittedBefore(r) == read[r].saw[1][3]

\* The template flags every listed employee whose record for the date was
\* committed before the request, and no employee without a committed record.
TemplateFlagsCommitted(r) ==
    LET d == read'[r].query.date
    IN  \A a \in DOMAIN read'[r].data :
            \A e \in DOMAIN read'[r].data[a].employees :
                LET flag == read'[r].data[a].employees[e].hasExistingRecord
                IN  /\ (\E rec \in CommittedBefore(r) :
                            rec.employeeId = e /\ rec.date = d) => flag
                    /\ flag => CommittedOn(e, d)

\* verify's registered is the number of committed records it found in scope,
\* and its rate is that number over the active employees in scope, in tenths
\* of a percent.
VerifyCountsCommitted(r) ==
    LET summary == read'[r].summary
        total == Cardinality(ActiveInScope(read[r].query))
        gap == summary.completionRate.tenths * total - 1000 * summary.registered
    IN  /\ summary.registered = Cardinality(read[r].existingRecords)
        /\ summary.totalEmployees = total
        /\ IF total = 0
           THEN "text" \in DOMAIN summary.completionRate
           ELSE 2 * gap <= total /\ -2 * gap <= total

\* C17: once a record of employee e for date d is committed, a template for d
\* lists e with hasExistingRecord = true, and false for the listed employees
\* without a record on d; verify finds as many records as are committed in
\* its scope, reports that number as registered, and its completion rate is
\* that number over the active employees in scope.
C17_RoundTrip ==
    [][\A r \in Readers :
          /\ Answers(r, "getTemplate") => TemplateFlagsCommitted(r)
          /\ (read[r].pc = "idle" /\ read'[r].kind = "verify") =>
                 Cardinality(read'[r].existingRecords)
                     = Cardinality(CommittedInScope(read'[r].query))
          /\ Answers(r, "verify") => VerifyCountsCommitted(r)]_vars

\* Two finished read requests of the same kind with the same parameters that
\* met the same storage at each of their queries.
SameCall(r1, r2) ==
    /\ r1 # r2
    /\ read[r1].pc = "done" /\ read[r2].pc = "done"
    /\ read[r1].kind \in {"getTemplate", "verify"}
    /\ read[r1].kind = read[r2].kind
    /\ read[r1].query = read[r2].query
    /\ read[r1].saw = read[r2].saw

\* A step of getTemplate or of verify.
ReadsStorage ==
    \E r \in Readers :
        read'[r] # read[r] /\ read'[r].kind \in {"getTemplate", "verify"}

RejectedIndexes(p) == {errors[p][k].index : k \in 1..Len(errors[p])}

\* The positions, from 1, of the records of a request that are not in errors,
\* in the order of the request.
AcceptedPositions(p) ==
    SelectSeq([k \in 1..Len(records[p]) |-> k],
              LAMBDA k : k - 1 \notin RejectedIndexes(p))

\* Every record of the request is in exactly one of the two lists: errors
\* names each position at most once, and processedRecords holds, in order, the
\* records of the other positions.
ExactlyOneList(p) ==
    /\ \A j, k \in 1..Len(errors[p]) :
           errors[p][j].index = errors[p][k].index => j = k
    /\ RejectedIndexes(p) \subseteq 0..(Len(records[p]) - 1)
    /\ Len(processedRecords[p]) = Len(AcceptedPositions(p))
    /\ \A k \in 1..Len(processedRecords[p]) :
           processedRecords[p][k].employeeId
               = records[p][AcceptedPositions(p)[k]].employeeId

\* An entry of errors carries the position of its record, the employeeId of
\* that record and a reason.
EntryNamesRecord(p, e) ==
    /\ DOMAIN e = {"index", "employeeId", "error"}
    /\ e.index \in 0..(Len(records[p]) - 1)
    /\ e.employeeId = records[p][e.index + 1].employeeId

\* The 201 body counts the two lists and shows the first entries of errors.
ResultCounts(p) ==
    LET r == response[p]
        rejected == IF "totalErrors" \in DOMAIN r THEN r.totalErrors ELSE r.errors
    IN  /\ r.processed = Len(processedRecords[p])
        /\ rejected = Len(errors[p])
        /\ r.processed + rejected = r.totalRequested
        /\ r.totalRequested = Len(body[p].records)
        /\ "totalErrors" \in DOMAIN r =>
               /\ Len(r.errors) = Min(Len(errors[p]), ErrorsShown)
               /\ \A k \in 1..Len(r.errors) :
                      r.errors[k] = errors[p][k] /\ EntryNamesRecord(p, r.errors[k])

\* C19: when bulkCreate answers with a result, every submitted record is in
\* exactly one of processedRecords and errors, the numbers in the answer add up
\* to the number of records requested, and every entry of errors carries the
\* index of its record in the submitted array, its employeeId and a reason.
C19_EveryRecordAccounted ==
    \A p \in Procs :
        response[p].status = 201 =>
            /\ ExactlyOneList(p)
            /\ \A k \in 1..Len(errors[p]) : EntryNamesRecord(p, errors[p][k])
            /\ ResultCounts(p)

\* C19, its case: a request was answered 201 with one record created and
\* another one rejected.
C19_Witness ==
    \E p \in Procs :
        /\ response[p].status = 201
        /\ Len(processedRecords[p]) >= 1
        /\ Len(errors[p]) >= 1

\* C20: a committed AttendanceRecord, its FoodAllowance and its ExtraHours row
\* stay in storage as they are through every later step of bulkCreate,
\* getTemplate, verify, getDailySummary and the area and employee operations.
C20_CommittedRowsStay ==
    [][/\ attendance_records \subseteq attendance_records'
       /\ food_allowances \subseteq food_allowances'
       /\ extra_hours \subseteq extra_hours']_vars

\* C20, its case: after the record of e1 was committed with its two rows, a
\* second submission found it and rejected its record, e1 was deactivated and
\* a read request was answered.
C20_Witness ==
    /\ \E rec \in attendance_records :
           /\ rec.employeeId = "e1"
           /\ \E f \in food_allowances : f.attendanceId = rec.id
           /\ \E x \in extra_hours : x.attendanceId = rec.id
    /\ \E p \in Procs : response[p].status = 201 /\ Len(errors[p]) = 1
    /\ \E a \in Admins :
           op[a].kind = "employee.delete" /\ op[a].pc = "done" /\ op[a].status = 200
    /\ ~employee["e1"].isActive
    /\ \E r \in Readers : read[r].pc = "done" /\ read[r].status = 200

\* Has the handler of an attendance request been called?
Invoked(c) == read[c].pc # "idle" \/ (c \in Procs /\ pc[c] # "idle")

\* The handler of the request is called in this step.
InvokedNow(c) ==
    \/ read[c].pc = "idle" /\ read'[c].pc # "idle"
    \/ c \in Procs /\ pc[c] = "idle" /\ pc'[c] # "idle"

\* The request carries no authenticated user: no token, a token that does
\* not verify, or the token of a user that does not exist.
Unauthenticated(c) ==
    auth[c].token.kind # "valid" \/ auth[c].token.userId \notin DOMAIN user

SubmittedFor(row) == body[row.id[1]].records[row.id[2]]

\* C22: a committed non-vacation record submitted with a lunchDuration L in
\* [0,180], L = 0 included, has lunchDuration = L and a workedHours computed
\* with L; a record submitted without lunchDuration has the default of 30.
C22_LunchDurationKept ==
    \A row \in attendance_records :
        LET sub == SubmittedFor(row)
        IN  ~row.isVacation =>
                IF "lunchDuration" \in DOMAIN sub
                THEN /\ row.lunchDuration = sub.lunchDuration
                     /\ ("entryTime" \in DOMAIN sub /\ "exitTime" \in DOMAIN sub) =>
                            row.workedHours =
                                toFixed2(calculateWorkedHours(
                                    sub.entryTime, sub.exitTime, sub.lunchDuration,
                                    Get(sub, "permissionHours", 0)))
                ELSE row.lunchDuration = DefaultLunchDuration

\* C23: a committed record without entryTime or without exitTime has
\* workedHours = 0 and no ExtraHours row, whatever its lunch duration and its
\* permissionHours are.
C23_NoScheduleNoHours ==
    \A row \in attendance_records :
        (row.entryTime = <<>> \/ row.exitTime = <<>>) =>
            /\ row.workedHours = 0
            /\ \A x \in extra_hours : x.attendanceId # row.id

\* C23, its case: a committed record with an entry, a permission and no exit,
\* and one with an exit and no entry.
C23_Witness ==
    \E r1, r2 \in attendance_records :
        /\ r1.entryTime # <<>> /\ r1.exitTime = <<>> /\ r1.permissionHours > 0
        /\ r2.entryTime = <<>> /\ r2.exitTime # <<>>
        /\ ~r1.isVacation /\ ~r2.isVacation

\* The rows, committed or not, that a request has written.
WrittenBy(p) ==
    {r \in attendance_records \cup UNION {tx[q].attendance_records : q \in Procs} :
        r.id[1] = p}
    \cup {r \in food_allowances \cup extra_hours
                \cup UNION {tx[q].food_allowances \cup tx[q].extra_hours : q \in Procs} :
             r.attendanceId[1] = p}

\* C24: a bulkCreate answered 400 (the body fails the schema) or 404 (an
\* employeeId is not the id of an active employee) has opened no transaction
\* and has written no AttendanceRecord, FoodAllowance or ExtraHours row for any
\* record of the batch, and the step that answers leaves storage as it was.
C24_RejectedBatchWritesNothing ==
    /\ [](\A p \in Procs :
            response[p].status \in {400, 404} =>
                /\ WrittenBy(p) = {}
                /\ tx[p] = NoTx
                /\ processedRecords[p] = <<>>)
    /\ [][\A p \in Procs :
            (response[p].status = 0 /\ response'[p].status \in {400, 404}) =>
                storage' = storage]_vars

\* C24, its case: a batch of two records, the first of an active employee and
\* the second of an inactive one, was answered 404.
C24_Witness ==
    \E p \in Procs :
        /\ response[p].status = 404
        /\ Len(body[p].records) = 2
        /\ employee[body[p].records[1].employeeId].isActive
        /\ ~employee[body[p].records[2].employeeId].isActive

\* The record listed at position k of processedRecords is in storage: its
\* AttendanceRecord, created by this request, with its FoodAllowance.
CreatedIsStored(p, k) ==
    \E row \in attendance_records :
        /\ row.id[1] = p
        /\ row.employeeId = processedRecords[p][k].employeeId
        /\ row.date = body[p].date
        /\ \E f \in food_allowances : f.attendanceId = row.id

\* C25: when bulkCreate has answered 201, every record it lists in
\* processedRecords with status 'created' is in storage with its FoodAllowance,
\* also when another record of the batch raised an error inside the
\* transaction that went to errors.
C25_CreatedMeansStored ==
    \A p \in Procs :
        response[p].status = 201 =>
            \A k \in 1..Len(response[p].processedRecords) :
                response[p].processedRecords[k].status = "created" =>
                    CreatedIsStored(p, k)

\* The employees a template lists with the given hasExistingRecord flag, as
\* pairs of area and employee.
Flagged(r, flag) ==
    {<<a, e>> \in (DOMAIN read[r].data) \X (DOMAIN employee) :
        /\ e \in DOMAIN read[r].data[a].employees
        /\ read[r].data[a].employees[e].hasExistingRecord = flag}

\* C26: in every getTemplate result, meta.employeesWithExistingRecords is the
\* number of listed employees with hasExistingRecord = true and
\* meta.employeesPendingRegistration the number of listed employees with
\* false, so never negative, also when an employee of a requested area was
\* deactivated after the record for the date was committed.
C26_TemplateMetaCountsFlags ==
    \A r \in Readers :
        (read[r].kind = "getTemplate" /\ read[r].pc = "done" /\ read[r].status = 200) =>
            /\ read[r].meta.employeesWithExistingRecords = Cardinality(Flagged(r, TRUE))
            /\ read[r].meta.employeesPendingRegistration = Cardinality(Flagged(r, FALSE))
            /\ read[r].meta.employeesPendingRegistration >= 0

\* A verify request has been answered.
VerifyAnswered(r) ==
    read[r].kind = "verify" /\ read[r].pc = "done" /\ read[r].status = 200

\* C27: in every verify result registered is at most the number of active
\* employees in scope, pending = total - registered is not negative and is the
\* number of active employees in scope without a record for the date, and the
\* completion rate is a number between 0 and 100%, also with no active
\* employee in scope and with an employee deactivated, or without an area,
\* after the record was committed.
C27_VerifySummaryConsistent ==
    /\ [](\A r \in Readers :
            VerifyAnswered(r) =>
                LET summary == read[r].summary
                IN  /\ summary.registered <= summary.totalEmployees
                    /\ summary.pending = summary.totalEmployees - summary.registered
                    /\ summary.pending >= 0
                    /\ "tenths" \in DOMAIN summary.completionRate
                    /\ summary.completionRate.tenths \in 0..1000)
    /\ [][\A r \in Readers :
            Answers(r, "verify") =>
                read'[r].summary.pending =
                    Cardinality({e \in ActiveInScope(read[r].query) :
                                    ~CommittedOn(e, read[r].query.date)})]_vars

\* C28: after any sequence of area creations and updates, two updates of the
\* same area that interleave included (one changing only defaultEntryTime, the
\* other only defaultExitTime), every stored area has its defaultEntryTime
\* strictly before its defaultExitTime.
C28_EntryBeforeExit ==
    \A id \in DOMAIN area : area[id].defaultEntryTime < area[id].defaultExitTime

\* Request a of the given kind, for an employee that has a user, is answered
\* 200 by this step.
Completes(a, kind) ==
    /\ op[a].pc # "done"
    /\ op'[a].pc = "done"
    /\ op'[a].kind = kind
    /\ op'[a].status = 200
    /\ op'[a].id \in DOMAIN user

\* A deactivation of the employee is complete and no activation of the
\* employee has got past its checks.
Deactivated(id) ==
    /\ \E a \in Admins :
           op[a].kind = "employee.delete" /\ op[a].id = id /\ op[a].pc = "done"
           /\ op[a].status = 200
    /\ \A a \in Admins :
           op[a].kind = "employee.activate" /\ op[a].id = id
               => op[a].pc = "done" /\ op[a].status # 200

\* C29: when EmployeesController.delete has completed for an employee that
\* has a user, the employee and the user are both inactive; from then on
\* authMiddleware answers 401, and no handler runs, for every request that
\* carries the token of that user; when EmployeesController.activate has
\* completed for the employee, both are active again.
C29_DeactivatedUntilActivated ==
    [][/\ \A a \in Admins :
              Completes(a, "employee.delete")
                  => /\ ~employee'[op'[a].id].isActive
                     /\ ~user'[op'[a].id].isActive
       /\ \A a \in Admins :
              Completes(a, "employee.activate")
                  => /\ employee'[op'[a].id].isActive
                     /\ user'[op'[a].id].isActive
       /\ \A c \in Readers :
              /\ auth[c].pc = "findUser"
              /\ auth'[c] # auth[c]
              /\ Deactivated(auth[c].token.userId)
              => auth'[c].pc = "done" /\ auth'[c].status = 401 /\ ~InvokedNow(c)]_vars

\* C30: AreasController.delete answers 409, and leaves the area in place, for
\* an area that has an active employee; no step removes an area that has an
\* active employee when it is removed, also when a creation, a reassignment or
\* a reactivation of an employee into the area comes between the count and
\* the delete.
C30_NoRemovalWithActiveEmployees ==
    [][/\ \A id \in DOMAIN area \ DOMAIN area' : ActiveEmployeesOf(id) = 0
       /\ \A a \in Admins :
              /\ op[a].pc = "idle"
              /\ op'[a].pc # "idle"
              /\ op'[a].kind = "area.delete"
              /\ op'[a].id \in DOMAIN area
              /\ ActiveEmployeesOf(op'[a].id) > 0
              => op'[a].pc = "done" /\ op'[a].status = 409 /\ area' = area]_vars
====
